---- MODULE Spec2Model ----
(***************************************************************************)
(* A model of the foundation layer of virtual_rainforest: the grid         *)
(* geometry engine and the spatial mapper of core/grid.py, the axis        *)
(* validator dispatch of core/axes.py and the Data store of core/data.py.  *)
(*                                                                         *)
(* Geometry is exact integer geometry.  A polygon is the sequence of the   *)
(* vertices of its exterior ring, a vertex is a pair <<x, y>>.  On square  *)
(* grids one unit is one metre.  On hexagon grids x is measured in units   *)
(* of apothem_a1 and y in units of side_length_a1 / 2, the apothem and     *)
(* half side length of the hexagon of area 1: this affine change of        *)
(* coordinates makes every vertex of the tiling an integer point and       *)
(* preserves which points a convex polygon contains.  cell_area ranges     *)
(* over perfect squares so that np.sqrt(cell_area) is an integer.          *)
(***************************************************************************)
EXTENDS Integers, Sequences, FiniteSets, TLC

\* ---------------------------------------------------------------- bounds
MaxNx == 2
MaxNy == 2
MaxPts == 2
MaxLen == 4
MaxXY == 2

GridTypes == {"square", "hexagon"}
CellAreas == {1, 4}
Offsets == {0, 1}
XCoords == 0 .. 2
YCoords == 0 .. 4
IdVals == 0 .. 4
Names == {"temp", "elev"}

\* Optional values: None is the empty tuple, Some(v) the tuple holding v
None == <<>>
Some(v) == <<v>>

VARIABLES
    grid_type,   \* Grid.grid_type
    cell_area,   \* Grid.cell_area
    cell_nx,     \* Grid.cell_nx
    cell_ny,     \* Grid.cell_ny
    xoff,        \* Grid.xoff
    yoff,        \* Grid.yoff
    cell_id,     \* Grid.cell_id: sequence of integer ids
    polygons,    \* Grid.polygons: sequence of polygons, parallel to cell_id
    n_cells,     \* Grid.n_cells
    centroids,   \* Grid.centroids: twice the centroid of each polygon
    bounds,      \* Grid.bounds: (minx, miny, maxx, maxy) of the polygons
    neighbours,  \* Grid._neighbours: None, or per cell the array of its neighbours
    distances,   \* Grid._distances: None, or the matrix of centroid distances
    AXIS_VALIDATORS,      \* axes.AXIS_VALIDATORS: per core axis, its validators
    data,                 \* Data.data: variable name -> validated array
    variable_validation,  \* Data.variable_validation: name -> axis -> validator
    folder,      \* the configuration folder: whether it exists, its os.listdir
    config_dict, \* validate_config: config_dict
    toml_dict,   \* validate_config: toml_dict
    file_no,     \* validate_config: position of the loop over the listing
    pc,          \* validate_config: the statement that runs next
    stages,      \* validate_config: the steps that have run, in order
    run_config,      \* vr_run: config, the Config it builds
    line,            \* vr_run: the statement that runs next
    model_list,      \* vr_run: model_list
    models_cfd,      \* vr_run: the keys of models_cfd, in insertion order
    current_time,    \* vr_run: current_time, in seconds
    update_interval, \* vr_run: update_interval, in seconds
    end_time,        \* vr_run: end_time, in seconds
    time_index,      \* vr_run: time_index
    calls,           \* vr_run: the calls it has made to its collaborators
    log,         \* the records the call that ran has logged
    op,          \* the operation that ran last
    args,        \* its arguments
    result       \* its outcome: [status, error, message, detail, value]

gridvars == <<grid_type, cell_area, cell_nx, cell_ny, xoff, yoff,
              cell_id, polygons, n_cells, centroids, bounds, neighbours, distances>>
datavars == <<AXIS_VALIDATORS, data, variable_validation>>
cfgvars == <<folder, config_dict, toml_dict, file_no, pc, stages>>
mainvars == <<run_config, line, model_list, models_cfd, current_time, update_interval,
              end_time, time_index, calls>>
vars == <<gridvars, datavars, cfgvars, mainvars, log, op, args, result>>

\* ------------------------------------------------------- outcome records
Ok(v) == [status |-> "ok", error |-> "", message |-> "", detail |-> <<>>, value |-> v]
RaiseWith(kind, msg, detail) ==
    [status |-> "raise", error |-> kind, message |-> msg, detail |-> detail, value |-> <<>>]
Raise(kind, msg) == RaiseWith(kind, msg, <<>>)
NoResult == [status |-> "none", error |-> "", message |-> "", detail |-> <<>>, value |-> <<>>]

\* LOGGER.critical(excep) for an exception that ends the call
Critical(res) ==
    IF res.status = "raise" THEN << <<"CRITICAL", res.message>> >> ELSE <<>>

\* ------------------------------------------------------ sequence helpers
RECURSIVE Concat(_)
Concat(rows) == IF rows = <<>> THEN <<>> ELSE Head(rows) \o Concat(Tail(rows))

\* ndarray.flatten() of a two dimensional array held as a sequence of rows
flatten(a) == Concat(a)

\* np.flipud: the rows in reverse order
flipud_mut(a) == a
flipud(a) == [r \in 1 .. Len(a) |-> a[Len(a) + 1 - r]]

\* np.indices((ny, nx)): the row index array and the column index array
indices_y(ny, nx) == [r \in 1 .. ny |-> [c \in 1 .. nx |-> r - 1]]
indices_x(ny, nx) == [r \in 1 .. ny |-> [c \in 1 .. nx |-> c - 1]]

\* array * scalar, elementwise on a two dimensional array
times(a, f) == [r \in 1 .. Len(a) |-> [c \in 1 .. Len(a[r]) |-> a[r][c] * f]]

\* np.sqrt on the perfect squares of CellAreas
sqrt(a) == CHOOSE s \in 0 .. a : s * s = a

\* ------------------------------------------------------------- shapely
\* shapely.affinity.scale about origin (0, 0)
scale(poly, xfact, yfact) ==
    [i \in 1 .. Len(poly) |-> <<poly[i][1] * xfact, poly[i][2] * yfact>>]

\* shapely.affinity.translate
translate(poly, xo, yo) ==
    [i \in 1 .. Len(poly) |-> <<poly[i][1] + xo, poly[i][2] + yo>>]

\* Polygon.intersects(Point): the point lies in the closed polygon.  The
\* rings are convex and anti-clockwise, so the point is in the polygon iff
\* it is on or to the left of every edge.
intersects_mut(ply, pt) ==
    \A i \in 1 .. Len(ply) - 1 :
        (ply[i + 1][1] - ply[i][1]) * (pt[2] - ply[i][2])
      - (ply[i + 1][2] - ply[i][2]) * (pt[1] - ply[i][1]) > 0
intersects(ply, pt) ==
    \A i \in 1 .. Len(ply) - 1 :
        (ply[i + 1][1] - ply[i][1]) * (pt[2] - ply[i][2])
      - (ply[i + 1][2] - ply[i][2]) * (pt[1] - ply[i][1]) >= 0

\* ------------------------------------------------------- grid creators
\* cell_ids = idx_x + idx_y * cell_nx, elementwise
cell_ids_mut(idx_x, idx_y, nx) ==
    [r \in 1 .. Len(idx_x) |-> [c \in 1 .. Len(idx_x[r]) |-> idx_x[r][c] + idx_y[r][c]]]
make_cell_ids(idx_x, idx_y, nx) ==
    [r \in 1 .. Len(idx_x) |-> [c \in 1 .. Len(idx_x[r]) |-> idx_x[r][c] + idx_y[r][c] * nx]]

square_prototype == << <<0, 0>>, <<1, 0>>, <<1, 1>>, <<0, 1>>, <<0, 0>> >>

make_square_grid(area, nx, ny, xo, yo) ==
    LET scale_factor == sqrt(area)
        prototype == translate(scale(square_prototype, scale_factor, scale_factor), xo, yo)
        idx_y == indices_y(ny, nx)
        idx_x == indices_x(ny, nx)
        cell_ids == make_cell_ids(idx_x, idx_y, nx)
        cell_x == flatten(times(idx_x, scale_factor))
        cell_y == flatten(times(flipud(idx_y), scale_factor))
        cell_list == [k \in 1 .. Len(cell_x) |-> translate(prototype, cell_x[k], cell_y[k])]
    IN  <<flatten(cell_ids), cell_list>>

\* the hexagon of area 1 in units of (apothem_a1, side_length_a1 / 2)
hex_prototype ==
    << <<1, 0>>, <<2, 1>>, <<2, 3>>, <<1, 4>>, <<0, 3>>, <<0, 1>>, <<1, 0>> >>

make_hex_grid(area, nx, ny, xo, yo) ==
    LET scale_factor == sqrt(area)
        side_length == 2 * scale_factor      \* in units of side_length_a1 / 2
        apothem == scale_factor              \* in units of apothem_a1
        prototype == translate(scale(hex_prototype, scale_factor, scale_factor), xo, yo)
        idx_y == indices_y(ny, nx)
        idx_x == indices_x(ny, nx)
        cell_ids == make_cell_ids(idx_x, idx_y, nx)
        cell_x == flatten([r \in 1 .. ny |-> [c \in 1 .. nx |->
                      2 * apothem * idx_x[r][c] + apothem * (idx_y[r][c] % 2)]])
        \* 1.5 * side_length * flipud(idx_y): side_length is even in these units
        cell_y == flatten(times(flipud(idx_y), (3 * side_length) \div 2))
        cell_list == [k \in 1 .. Len(cell_x) |-> translate(prototype, cell_x[k], cell_y[k])]
    IN  <<flatten(cell_ids), cell_list>>

\* GRID_REGISTRY.get(grid_type)
creator(gt, area, nx, ny, xo, yo) ==
    IF gt = "square" THEN make_square_grid(area, nx, ny, xo, yo)
    ELSE make_hex_grid(area, nx, ny, xo, yo)

\* Polygon.centroid, doubled so that the centre of a unit square is integral:
\* the area weighted mean sum((x_i + x_j) * cross_ij) / (3 * sum(cross_ij))
\* over the edges (i, j) of the ring.
cross(ply, i) == ply[i][1] * ply[i + 1][2] - ply[i + 1][1] * ply[i][2]

RECURSIVE ring_sum(_, _, _)
ring_sum(ply, i, c) ==
    IF i >= Len(ply) THEN 0
    ELSE (IF c = 0 THEN cross(ply, i) ELSE (ply[i][c] + ply[i + 1][c]) * cross(ply, i))
         + ring_sum(ply, i + 1, c)

centroid(ply) ==
    << (2 * ring_sum(ply, 1, 1)) \div (3 * ring_sum(ply, 1, 0)),
       (2 * ring_sum(ply, 1, 2)) \div (3 * ring_sum(ply, 1, 0)) >>

Range(s) == {s[i] : i \in 1 .. Len(s)}

\* GeometryCollection(polygons).bounds
collection_bounds(plys) ==
    LET points == UNION {Range(plys[k]) : k \in 1 .. Len(plys)}
        xs == {pt[1] : pt \in points}
        ys == {pt[2] : pt \in points}
        least(S) == CHOOSE v \in S : \A w \in S : v <= w
        most(S) == CHOOSE v \in S : \A w \in S : v >= w
    IN  <<least(xs), least(ys), most(xs), most(ys)>>

\* ------------------------------------------------------------ Grid.__init__
GridSized(types, areas, offsets, max_nx, max_ny) ==
    /\ grid_type \in types
    /\ cell_area \in areas
    /\ cell_nx \in 1 .. max_nx
    /\ cell_ny \in 1 .. max_ny
    /\ xoff \in offsets
    /\ yoff \in offsets
    /\ LET made == creator(grid_type, cell_area, cell_nx, cell_ny, xoff, yoff)
       IN  /\ cell_id = made[1]
           /\ polygons = made[2]
           /\ Len(made[1]) = Len(made[2])
           /\ n_cells = Len(made[1])
           /\ centroids = [k \in 1 .. Len(made[2]) |-> centroid(made[2][k])]
           /\ bounds = collection_bounds(made[2])
    /\ neighbours = None
    /\ distances = None

GridCreate(types, areas, offsets) == GridSized(types, areas, offsets, MaxNx, MaxNy)

GridInit == GridCreate(GridTypes, CellAreas, Offsets)

\* the validators core/axes.py registers when it is imported
BuiltinValidators ==
    << [axis |-> "spatial",
        validators |-> << "Spat_CellId_Coord_Any", "Spat_CellId_Dim_Any",
                          "Spat_XY_Coord_Square", "Spat_XY_Dim_Square" >>] >>

\* an empty dict
EmptyDict == [k \in {} |-> None]

\* Data.__init__: an empty store
DataInit ==
    /\ AXIS_VALIDATORS = BuiltinValidators
    /\ data = EmptyDict
    /\ variable_validation = EmptyDict

\* no validate_config call has been made
NoConfigRun ==
    /\ folder = [exists |-> TRUE, files |-> <<>>]
    /\ config_dict = {}
    /\ toml_dict = {}
    /\ file_no = 0
    /\ pc = "idle"
    /\ stages = <<>>

\* no vr_run call has been made
NoRun ==
    /\ run_config = <<>>
    /\ line = "idle"
    /\ model_list = <<>>
    /\ models_cfd = <<>>
    /\ current_time = 0
    /\ update_interval = 0
    /\ end_time = 0
    /\ time_index = 0
    /\ calls = <<>>

Idle ==
    /\ log = <<>>
    /\ op = "idle"
    /\ args = <<>>
    /\ result = NoResult
    /\ NoConfigRun
    /\ NoRun

Init == GridInit /\ DataInit /\ Idle

\* The caller takes the outcome of the call that ran; the next call can start.
Return ==
    /\ op # "idle"
    /\ log' = <<>>
    /\ op' = "idle"
    /\ args' = <<>>
    /\ result' = NoResult
    /\ UNCHANGED <<gridvars, cfgvars, mainvars, datavars>>

\* ------------------------------------------------------- Spatial Mapper
Seqs(S, n) == UNION {[1 .. k -> S] : k \in 0 .. n}

Min(a, b) == IF a < b THEN a ELSE b

\* np.arange(n)
arange(n) == [i \in 1 .. n |-> i - 1]

\* the comprehension [id for id, ply in zip(cell_id, polygons) if ply.intersects(pt)]
RECURSIVE CellsOfPoint(_, _, _, _)
CellsOfPoint(ids, plys, pt, k) ==
    IF k > Len(ids) \/ k > Len(plys) THEN <<>>
    ELSE (IF intersects(plys[k], pt) THEN <<ids[k]>> ELSE <<>>)
         \o CellsOfPoint(ids, plys, pt, k + 1)

\* Grid.map_xy_to_cell_id on one dimensional coordinate arrays
map_xy_to_cell_id(x_coords, y_coords) ==
    IF Len(x_coords) # Len(y_coords)
    THEN Raise("ValueError", "The x/y coordinates are of unequal length")
    ELSE Ok([p \in 1 .. Len(x_coords) |->
                CellsOfPoint(cell_id, polygons, <<x_coords[p], y_coords[p]>>, 1)])

\* list.sort() on a list of tuples of integers: ascending lexicographic order
RECURSIVE TupleLess(_, _)
TupleLess(a, b) ==
    IF a = <<>> \/ b = <<>> THEN a = <<>> /\ b # <<>>
    ELSE IF Head(a) # Head(b) THEN Head(a) < Head(b)
    ELSE TupleLess(Tail(a), Tail(b))

RECURSIVE Insert(_, _)
Insert(t, s) ==
    IF s = <<>> THEN <<t>>
    ELSE IF TupleLess(t, Head(s)) THEN <<t>> \o s
    ELSE <<Head(s)>> \o Insert(t, Tail(s))

sort_mut(s) == s
RECURSIVE sort(_)
sort(s) == IF s = <<>> THEN <<>> ELSE Insert(Head(s), sort(Tail(s)))

\* [(mp, x, y) for (mp, x, y) in zip(cell_id_map, _x_idx, _y_idx) if mp is not None]
RECURSIVE MatchedCells(_, _, _, _)
MatchedCells(cell_id_map, x_idx, y_idx, k) ==
    IF k > Len(cell_id_map) \/ k > Len(x_idx) \/ k > Len(y_idx) THEN <<>>
    ELSE (IF cell_id_map[k] # None
          THEN << <<cell_id_map[k][1], x_idx[k], y_idx[k]>> >> ELSE <<>>)
         \o MatchedCells(cell_id_map, x_idx, y_idx, k + 1)

\* [v for v in cell_id_map if v is not None]
RECURSIVE NotNone(_)
NotNone(s) ==
    IF s = <<>> THEN <<>>
    ELSE (IF Head(s) # None THEN <<Head(s)[1]>> ELSE <<>>) \o NotNone(Tail(s))

\* strict and (0 in cell_counts): a point outside the grid is fatal
outside_mut(strict, cell_counts) == FALSE
outside(strict, cell_counts) == strict /\ 0 \in cell_counts

\* any([c > 1 for c in cell_counts]): a point on a cell boundary
unshared_mut(cell_counts) == FALSE
on_boundary(cell_counts) == \E c \in cell_counts : c > 1

\* logger.log_and_raise: the exception is logged as critical, then raised
log_and_raise(msg, kind) == RaiseWith(kind, msg, <<"logged">>)

\* Grid.map_xy_to_cell_indexing
map_xy_to_cell_indexing(x_coords, y_coords, x_idx, y_idx, strict) ==
    LET mapped == map_xy_to_cell_id(x_coords, y_coords)
    IN
    IF mapped.status = "raise" THEN mapped
    ELSE IF (x_idx = None) # (y_idx = None)
    THEN log_and_raise("Only one of x/y indices provided.", "ValueError")
    ELSE
    LET cell_map == mapped.value
        x_idx_ == IF x_idx = None THEN arange(Len(x_coords)) ELSE x_idx[1]
        y_idx_ == IF y_idx = None THEN arange(Len(y_coords)) ELSE y_idx[1]
        cell_counts == {Len(cell_map[p]) : p \in 1 .. Len(cell_map)}
        cell_id_map == [p \in 1 .. Len(cell_map) |->
                           IF Len(cell_map[p]) # 0 THEN Some(cell_map[p][1]) ELSE None]
        cells_found == NotNone(cell_id_map)
        cells == sort(MatchedCells(cell_id_map, x_idx_, y_idx_, 1))
    IN
    IF Len(x_idx_) # Len(x_coords) \/ Len(y_idx_) # Len(y_coords)
    THEN log_and_raise("Dimensions of x/y indices do not match coordinates", "ValueError")
    ELSE IF outside(strict, cell_counts)
    THEN log_and_raise("Mapped points fall outside grid.", "ValueError")
    ELSE IF on_boundary(cell_counts)
    THEN log_and_raise("Mapped points fall on cell boundaries.", "ValueError")
    ELSE IF Range(cells_found) # Range(cell_id)
    THEN log_and_raise("Mapped points do not cover all cells.", "ValueError")
    ELSE IF Len(cells_found) # n_cells
    THEN log_and_raise("Some cells contain more than one point.", "ValueError")
    ELSE Ok([x_idx |-> [k \in 1 .. Len(cells) |-> cells[k][2]],
             y_idx |-> [k \in 1 .. Len(cells) |-> cells[k][3]]])

\* index arrays a caller can pass along coordinates of length n: the positions
\* in reverse order, or an array that is one element too long
reversed(n) == [i \in 1 .. n |-> n - i]
toolong(n) == arange(n + 1)

\* the <<x_idx, y_idx>> arguments tried for coordinates of lengths n and m
IdxInputs(n, m) ==
    { <<None, None>>,
      <<Some(reversed(n)), None>>,
      <<None, Some(reversed(m))>>,
      <<Some(reversed(n)), Some(reversed(m))>>,
      <<Some(toolong(n)), Some(reversed(m))>> }

MapXYToCellId ==
    /\ op = "idle"
    /\ \E x_coords \in Seqs(XCoords, MaxPts), y_coords \in Seqs(YCoords, MaxPts) :
        /\ op' = "map_xy_to_cell_id"
        /\ args' = [x_coords |-> x_coords, y_coords |-> y_coords]
        /\ result' = map_xy_to_cell_id(x_coords, y_coords)
    /\ UNCHANGED <<gridvars, cfgvars, mainvars, datavars, log>>

MapXYToCellIndexing ==
    /\ op = "idle"
    /\ \E x_coords \in Seqs(XCoords, MaxPts), y_coords \in Seqs(YCoords, MaxPts),
          strict \in BOOLEAN :
        \E idx \in IdxInputs(Len(x_coords), Len(y_coords)) :
            /\ op' = "map_xy_to_cell_indexing"
            /\ args' = [x_coords |-> x_coords, y_coords |-> y_coords,
                        x_idx |-> idx[1], y_idx |-> idx[2], strict |-> strict]
            /\ result' = map_xy_to_cell_indexing(x_coords, y_coords, idx[1], idx[2], strict)
            /\ log' = IF result'.detail = <<"logged">> THEN Critical(result') ELSE <<>>
    /\ UNCHANGED <<gridvars, cfgvars, mainvars, datavars>>

Next ==
    \/ MapXYToCellId
    \/ MapXYToCellIndexing
    \/ Return

Spec == Init /\ [][Next]_vars

\* Grid construction followed by point lookups only
NextCellId ==
    \/ MapXYToCellId
    \/ Return

SpecCellId == Init /\ [][NextCellId]_vars

\* ====================================================================
\* Grid neighbours and distances
\* ====================================================================
MaxNbr == 3

\* The distance argument of set_neighbours is held as its square, in the
\* units of cell_area; None is the default of the argument.
DistancesSq == {0, 1, 2, 4, 8}
Distances == {None} \cup {Some(q) : q \in DistancesSq}

gridshape == <<grid_type, cell_area, cell_nx, cell_ny, xoff, yoff,
               cell_id, polygons, n_cells, centroids, bounds>>

\* The Euclidean distance between two centroids, held as a monotone measure
\* of it.  Square grids: coordinates are in metres, the measure of the
\* doubled centroids is 4 * dist^2.  Hexagon grids: x is in apothems and y in
\* half sides of the hexagon of area 1, so that dist^2 = (3 dx^2 + dy^2) /
\* (6 sqrt(3)) and the measure of the doubled centroids is 24 sqrt(3) * dist^2.
euclidean(a, b) ==
    IF grid_type = "square"
    THEN (a[1] - b[1]) * (a[1] - b[1]) + (a[2] - b[2]) * (a[2] - b[2])
    ELSE 3 * (a[1] - b[1]) * (a[1] - b[1]) + (a[2] - b[2]) * (a[2] - b[2])

\* scipy cdist(XA, XB)
cdist(XA, XB) == [r \in 1 .. Len(XA) |-> [c \in 1 .. Len(XB) |-> euclidean(XA[r], XB[c])]]

\* squareform(pdist(X)): the full symmetric matrix
first_row_mut(X) == cdist([k \in 1 .. Len(X) |-> X[1]], X)
squareform_pdist(X) == cdist(X, X)

\* ndarray[index array]: the rows at the given 0-based positions
take(a, idx) == [k \in 1 .. Len(idx) |-> a[idx[k] + 1]]

\* Grid.get_distances; a single id is given as the one element list made of it
get_distances(cell_from, cell_to) ==
    LET from == IF cell_from = None THEN arange(n_cells) ELSE cell_from[1]
        to == IF cell_to = None THEN arange(n_cells) ELSE cell_to[1]
    IN  IF distances = None
        THEN cdist(take(centroids, from), take(centroids, to))
        ELSE [r \in 1 .. Len(from) |-> [c \in 1 .. Len(to) |-> distances[from[r] + 1][to[c] + 1]]]

\* dist <= distance, on the measure of dist and the square q of distance
strictly_mut(dm, q) ==
    IF grid_type = "square" THEN dm < 4 * q ELSE dm * dm < 1728 * q * q
le(dm, q) ==
    IF grid_type = "square" THEN dm <= 4 * q ELSE dm * dm <= 1728 * q * q

\* np.where(cond)[1] on a matrix of one row: the columns that hold true
where_columns(row) == SelectSeq(arange(Len(row)), LAMBDA c : row[c + 1])

\* Grid.set_neighbours: the new value of _neighbours, or the TypeError of
\* comparing an array with None
set_neighbours(distance) ==
    IF distance = None
    THEN Raise("TypeError", "'<=' not supported between instances of 'numpy.ndarray' and 'NoneType'")
    ELSE Ok([k \in 1 .. Len(cell_id) |->
               LET d == get_distances(Some(<<cell_id[k]>>), Some(cell_id))[1]
               IN  where_columns([c \in 1 .. Len(d) |-> le(d[c], distance[1])])])

SetNeighbours ==
    /\ op = "idle"
    /\ \E distance \in Distances :
        /\ op' = "set_neighbours"
        /\ args' = [distance |-> distance]
        /\ result' = IF set_neighbours(distance).status = "ok" THEN Ok(<<>>)
                     ELSE set_neighbours(distance)
        /\ neighbours' = IF set_neighbours(distance).status = "ok"
                         THEN set_neighbours(distance).value ELSE neighbours
    /\ UNCHANGED <<gridshape, cfgvars, mainvars, distances, datavars, log>>

\* the neighbours property
unguarded_mut == Ok(neighbours)
neighbours_property ==
    IF neighbours = None
    THEN Raise("AttributeError", "Neighbours not yet defined: use set_neighbours.")
    ELSE Ok(neighbours)

Neighbours ==
    /\ op = "idle"
    /\ op' = "neighbours"
    /\ args' = <<>>
    /\ result' = neighbours_property
    /\ UNCHANGED <<gridvars, cfgvars, mainvars, datavars, log>>

\* Grid.populate_distances
recentring_mut ==
    /\ op = "idle"
    /\ op' = "populate_distances"
    /\ args' = <<>>
    /\ result' = Ok(<<>>)
    /\ distances' = squareform_pdist(centroids)
    /\ centroids' = [k \in 1 .. Len(centroids) |-> <<0, 0>>]
    /\ UNCHANGED <<grid_type, cell_area, cell_nx, cell_ny, xoff, yoff, cell_id,
                   polygons, n_cells, bounds, cfgvars, mainvars, neighbours, datavars, log>>
PopulateDistances ==
    /\ op = "idle"
    /\ op' = "populate_distances"
    /\ args' = <<>>
    /\ result' = Ok(<<>>)
    /\ distances' = squareform_pdist(centroids)
    /\ UNCHANGED <<gridshape, cfgvars, mainvars, neighbours, datavars, log>>

\* The cell_from / cell_to arguments of get_distances: None, one id, or a
\* sequence of ids.  [cell] if isinstance(cell, int): one id is the one
\* element sequence made of it.
CellArgs ==
    LET last == n_cells - 1
    IN  {None} \cup {Some(ids) : ids \in {<<0>>, <<last>>, <<0, last>>, <<last, 0>>, <<last, last>>}}

GetDistances ==
    /\ op = "idle"
    /\ \E cell_from \in CellArgs, cell_to \in CellArgs :
        /\ op' = "get_distances"
        /\ args' = [cell_from |-> cell_from, cell_to |-> cell_to]
        /\ result' = Ok(get_distances(cell_from, cell_to))
    /\ UNCHANGED <<gridvars, cfgvars, mainvars, datavars, log>>

\* Grid._get_geojson: one feature per (cell_id, polygon) pair, with the id of
\* the cell and the number of coordinates of its outer ring; the decimal text
\* of the coordinates is not represented.
get_geojson ==
    [k \in 1 .. Min(Len(cell_id), Len(polygons)) |->
        [cell_id |-> cell_id[k], coordinates |-> Len(polygons[k])]]

\* Grid.dumps
Dumps ==
    /\ op = "idle"
    /\ op' = "dumps"
    /\ args' = <<>>
    /\ result' = Ok(get_geojson)
    /\ UNCHANGED <<gridvars, cfgvars, mainvars, datavars, log>>

NeighboursInit == GridSized(GridTypes, CellAreas, Offsets, MaxNbr, MaxNbr) /\ DataInit /\ Idle

NextNeighbours ==
    \/ SetNeighbours
    \/ Neighbours
    \/ PopulateDistances
    \/ GetDistances
    \/ Return

SpecNeighbours == NeighboursInit /\ [][NextNeighbours]_vars

\* every operation of a Grid, on the grids of one cell area at the origin
NextGrid ==
    \/ SetNeighbours
    \/ Neighbours
    \/ PopulateDistances
    \/ GetDistances
    \/ Dumps
    \/ MapXYToCellId
    \/ MapXYToCellIndexing
    \/ Return

GridOpsInit == GridCreate(GridTypes, {1}, {0}) /\ DataInit /\ Idle

SpecGrid == GridOpsInit /\ [][NextGrid]_vars

\* ====================================================================
\* core/axes.py: axis validators and their dispatch
\* ====================================================================

\* dict with key k set to v
Put(f, k, v) == [n \in DOMAIN f \cup {k} |-> IF n = k THEN v ELSE f[n]]

\* A labelled array.  dims and shape are parallel; coords maps the dimensions
\* that carry a coordinate to its values; values are held flat, row-major.
\* type tells a DataArray from the other containers a caller may pass.
DataArray(dims, shape, coords, values) ==
    [type |-> "DataArray", dims |-> dims, shape |-> shape,
     coords |-> coords, values |-> values]

\* size of the array along dimension d
RECURSIVE SizeOf(_, _, _)
SizeOf(a, d, k) ==
    IF k > Len(a.dims) THEN 0
    ELSE IF a.dims[k] = d THEN a.shape[k] ELSE SizeOf(a, d, k + 1)

\* the dims and shape of an array after its spatial dimensions `gone` are
\* replaced by one leading cell_id dimension of size n
OtherDims(a, gone) == SelectSeq(a.dims, LAMBDA d : d \notin gone)
RECURSIVE OtherShape(_, _, _)
OtherShape(a, gone, k) ==
    IF k > Len(a.dims) THEN <<>>
    ELSE (IF a.dims[k] \in gone THEN <<>> ELSE <<a.shape[k]>>) \o OtherShape(a, gone, k + 1)
OtherCoords(a, gone) == [d \in DOMAIN a.coords \ gone |-> a.coords[d]]

\* AxisValidator.core_axis
core_axis(v) ==
    CASE v \in {"Spat_CellId_Coord_Any", "Spat_CellId_Dim_Any",
                "Spat_XY_Coord_Square", "Spat_XY_Dim_Square"} -> "spatial"
      [] v \in {"TestAxis", "TestAxis2", "BadDims"} -> "testing"
      [] OTHER -> ""

\* AxisValidator.dim_names
dim_names(v) ==
    CASE v \in {"Spat_CellId_Coord_Any", "Spat_CellId_Dim_Any"} -> {"cell_id"}
      [] v \in {"Spat_XY_Coord_Square", "Spat_XY_Dim_Square"} -> {"x", "y"}
      [] v \in {"TestAxis", "TestAxis2", "BadAxis"} -> {"test"}
      [] OTHER -> {}

\* AxisValidator.can_validate: the signature of dimension and coordinate
\* names, and the grid type, that the validator recognises
can_validate(v, value) ==
    LET dims == Range(value.dims)
        coords == DOMAIN value.coords
    IN  CASE v = "Spat_CellId_Coord_Any" -> {"cell_id"} \subseteq dims /\ {"cell_id"} \subseteq coords
          [] v = "Spat_CellId_Dim_Any" -> {"cell_id"} \subseteq dims /\ ~({"cell_id"} \subseteq coords)
          [] v = "Spat_XY_Coord_Square" ->
                 {"x", "y"} \subseteq dims /\ {"x", "y"} \subseteq coords /\ grid_type = "square"
          [] v = "Spat_XY_Dim_Square" ->
                 {"x", "y"} \subseteq dims /\ ~({"x", "y"} \subseteq coords) /\ grid_type = "square"
          [] v \in {"TestAxis", "TestAxis2"} -> {"test"} \subseteq dims /\ {"test"} \subseteq coords
          [] OTHER -> FALSE

\* the position of id in the sequence ids
PosOf(ids, id) == CHOOSE p \in 1 .. Len(ids) : ids[p] = id

\* the positions of the grid cell ids in the data cell ids, in grid order
unordered_mut(ids) == [k \in 1 .. n_cells |-> k]
grid_order(ids) == [k \in 1 .. n_cells |-> PosOf(ids, cell_id[k])]

\* Spat_CellId_Coord_Any.run_validation
run_Spat_CellId_Coord_Any(value) ==
    LET da_cell_ids == value.coords["cell_id"]
    IN  IF Cardinality(Range(da_cell_ids)) # Len(da_cell_ids)
        THEN Raise("ValueError", "The data cell ids contain duplicate values.")
        ELSE IF ~(Range(cell_id) \subseteq Range(da_cell_ids))
        THEN Raise("ValueError", "The data cell ids are not a superset of grid cell ids.")
        ELSE LET da_indices == grid_order(da_cell_ids)
             IN  Ok([value EXCEPT
                        !.shape = <<n_cells>> \o Tail(value.shape),
                        !.coords = Put(value.coords, "cell_id",
                                       [k \in 1 .. n_cells |-> da_cell_ids[da_indices[k]]]),
                        !.values = [k \in 1 .. n_cells |-> value.values[da_indices[k]]]])

\* the cell count test of Spat_CellId_Dim_Any
count_mut(n_found) == n_cells > n_found
count_differs(n_found) == n_cells # n_found

\* Spat_CellId_Dim_Any.run_validation
run_Spat_CellId_Dim_Any(value) ==
    LET n_found == SizeOf(value, "cell_id", 1)
    IN  IF count_differs(n_found)
        THEN RaiseWith("ValueError", "Grid defines n_cells cells, data provides n_found",
                       <<n_cells, n_found>>)
        ELSE Ok(value)

\* Spat_XY_Dim_Square.run_validation: the array has the shape of the grid and
\* is stacked row by row onto cell_id
run_Spat_XY_Dim_Square(value) ==
    IF cell_nx # SizeOf(value, "x", 1) \/ cell_ny # SizeOf(value, "y", 1)
    THEN Raise("ValueError", "Data XY dimensions do not match square grid")
    ELSE Ok([value EXCEPT
               !.dims = <<"cell_id">> \o OtherDims(value, {"x", "y"}),
               !.shape = <<n_cells>> \o OtherShape(value, {"x", "y"}, 1),
               !.coords = Put(OtherCoords(value, {"x", "y"}), "cell_id", cell_id)])

\* Spat_XY_Coord_Square.run_validation: every (y, x) coordinate pair is mapped
\* onto the grid with Grid.map_xy_to_cell_indexing and the array is indexed
\* with the result
run_Spat_XY_Coord_Square(value) ==
    LET nx == SizeOf(value, "x", 1)
        ny == SizeOf(value, "y", 1)
        stacked == [k \in 1 .. ny * nx |-> <<((k - 1) \div nx) + 1, ((k - 1) % nx) + 1>>]
        xs == [k \in 1 .. ny * nx |-> value.coords["x"][stacked[k][2]]]
        ys == [k \in 1 .. ny * nx |-> value.coords["y"][stacked[k][1]]]
        x_idx == [k \in 1 .. ny * nx |-> stacked[k][2] - 1]
        y_idx == [k \in 1 .. ny * nx |-> stacked[k][1] - 1]
        found == map_xy_to_cell_indexing(xs, ys, Some(x_idx), Some(y_idx), TRUE)
    IN  IF found.status = "raise" THEN found
        ELSE Ok([value EXCEPT
                   !.dims = <<"cell_id">> \o OtherDims(value, {"x", "y"}),
                   !.shape = <<n_cells>> \o OtherShape(value, {"x", "y"}, 1),
                   !.coords = OtherCoords(value, {"x", "y"}),
                   !.values = [k \in 1 .. n_cells |->
                                  value.values[found.value.y_idx[k] * nx
                                               + found.value.x_idx[k] + 1]]])

\* AxisValidator.run_validation
run_validation(v, value) ==
    CASE v = "Spat_CellId_Coord_Any" -> run_Spat_CellId_Coord_Any(value)
      [] v = "Spat_CellId_Dim_Any" -> run_Spat_CellId_Dim_Any(value)
      [] v = "Spat_XY_Coord_Square" -> run_Spat_XY_Coord_Square(value)
      [] v = "Spat_XY_Dim_Square" -> run_Spat_XY_Dim_Square(value)
      [] OTHER -> Ok(value)

\* the validators of one axis that can validate the array, in registry order
validator_found(validators, value) ==
    SelectSeq(validators, LAMBDA v : can_validate(v, value))

\* more than one validator matched on one axis
first_wins_mut(found) == FALSE
not_exclusive(found) == Len(found) > 1

\* the array uses a dimension name that a validator of the axis declares
never_uses_mut(validators, value) == FALSE
uses_axis_dims(validators, value) ==
    (UNION {dim_names(v) : v \in Range(validators)}) \cap Range(value.dims) # {}

\* validate_dataarray from axis number k of the registry on
RECURSIVE dispatch(_, _, _, _)
dispatch(registry, k, value, validation_dict) ==
    IF k > Len(registry) THEN Ok([value |-> value, dict |-> validation_dict])
    ELSE
    LET axis == registry[k].axis
        validators == registry[k].validators
        found == validator_found(validators, value)
    IN  IF not_exclusive(found)
        THEN RaiseWith("RuntimeError", "Validators on axis not mutually exclusive", <<axis>>)
        ELSE IF Len(found) >= 1
        THEN LET validated == run_validation(found[1], value)
             IN  IF validated.status = "raise" THEN validated
                 ELSE dispatch(registry, k + 1, validated.value,
                               Put(validation_dict, axis, Some(found[1])))
        ELSE IF uses_axis_dims(validators, value)
        THEN RaiseWith("ValueError",
                       "DataArray uses axis dimension names but does not match a validator",
                       <<axis>>)
        ELSE dispatch(registry, k + 1, value, Put(validation_dict, axis, None))

\* axes.validate_dataarray
validate_dataarray(value) == dispatch(AXIS_VALIDATORS, 1, value, <<>>)

\* AxisValidator.__init_subclass__: a new validator class joins the registry
RECURSIVE add_validator(_, _, _)
add_validator(registry, v, k) ==
    IF k > Len(registry) THEN Append(registry, [axis |-> core_axis(v), validators |-> <<v>>])
    ELSE IF registry[k].axis = core_axis(v)
    THEN [registry EXCEPT ![k].validators = Append(@, v)]
    ELSE add_validator(registry, v, k + 1)

Registered == UNION {Range(AXIS_VALIDATORS[k].validators) : k \in 1 .. Len(AXIS_VALIDATORS)}
Axes == {AXIS_VALIDATORS[k].axis : k \in 1 .. Len(AXIS_VALIDATORS)}

\* the validator classes a test or an extension defines
NewValidators == {"TestAxis", "TestAxis2", "BadAxis", "BadDims"}

RegisterValidator ==
    /\ op = "idle"
    /\ \E v \in NewValidators \ Registered :
        /\ op' = "register"
        /\ args' = [validator |-> v]
        /\ IF core_axis(v) = ""
           THEN /\ result' = Raise("ValueError", "Core axis name cannot be an empty string.")
                /\ UNCHANGED AXIS_VALIDATORS
           ELSE IF dim_names(v) = {}
           THEN /\ result' = Raise("ValueError", "AxisValidator dim names cannot be an empty set.")
                /\ UNCHANGED AXIS_VALIDATORS
           ELSE /\ result' = Ok(<<>>)
                /\ AXIS_VALIDATORS' = add_validator(AXIS_VALIDATORS, v, 1)
    /\ UNCHANGED <<gridvars, cfgvars, mainvars, data, variable_validation, log>>

\* -------- the arrays handed to the validators ---------------------------
vals(n, base) == [k \in 1 .. n |-> base + k - 1]

CellIdDimArrays(lens, base) ==
    {DataArray(<<"cell_id">>, <<n>>, <<>>, vals(n, base)) : n \in lens}

CellIdCoordArrays(idseqs, base) ==
    {DataArray(<<"cell_id">>, <<Len(ids)>>, [d \in {"cell_id"} |-> ids], vals(Len(ids), base)) :
        ids \in idseqs}

XYDimArrays ==
    {DataArray(<<"y", "x">>, <<r, c>>, <<>>, vals(r * c, 10)) : r \in 1 .. MaxXY, c \in 1 .. MaxXY}

XYCoordArrays ==
    {DataArray(<<"y", "x">>, <<Len(ys), Len(xs)>>,
               [d \in {"x", "y"} |-> IF d = "x" THEN xs ELSE ys],
               vals(Len(ys) * Len(xs), 10)) :
        ys \in Seqs(YCoords, MaxXY) \ {<<>>}, xs \in Seqs(XCoords, MaxXY) \ {<<>>}}

\* arrays that are on no spatial layout the validators know
OtherArrays ==
    { DataArray(<<"x">>, <<2>>, [d \in {"x"} |-> <<0, 1>>], vals(2, 10)),
      DataArray(<<"y">>, <<2>>, <<>>, vals(2, 10)),
      DataArray(<<"cell_identities">>, <<2>>, <<>>, vals(2, 10)),
      DataArray(<<"nope">>, <<2>>, [d \in {"nope"} |-> <<0, 1>>], vals(2, 10)) }

\* the array with a trailing dimension `test` of size 1, with or without a
\* coordinate on it
WithTest(a, with_coord) ==
    [a EXCEPT !.dims = @ \o <<"test">>,
              !.shape = @ \o <<1>>,
              !.coords = IF with_coord THEN Put(@, "test", <<0>>) ELSE @]

Plain == CellIdDimArrays(0 .. MaxLen, 10) \cup CellIdCoordArrays(Seqs(IdVals, MaxLen), 10)
             \cup XYDimArrays \cup XYCoordArrays \cup OtherArrays

Arrays == Plain \cup {WithTest(a, c) : a \in Plain, c \in BOOLEAN}

ValidateDataarray ==
    /\ op = "idle"
    /\ \E value \in Arrays :
        /\ op' = "validate_dataarray"
        /\ args' = [value |-> value]
        /\ result' = validate_dataarray(value)
        /\ log' = Critical(result')
    /\ UNCHANGED <<gridvars, cfgvars, mainvars, datavars>>

\* a validator used on its own, as its tests do: can_validate, then run_validation
RunValidation ==
    /\ op = "idle"
    /\ \E value \in Arrays, v \in Registered :
        /\ can_validate(v, value)
        /\ op' = "run_validation"
        /\ args' = [validator |-> v, value |-> value]
        /\ result' = run_validation(v, value)
        /\ log' = Critical(result')
    /\ UNCHANGED <<gridvars, cfgvars, mainvars, datavars>>

\* the grids the validators are exercised on
AxesInit == GridCreate(GridTypes, {1}, {0}) /\ DataInit /\ Idle

NextAxes ==
    \/ RegisterValidator
    \/ ValidateDataarray
    \/ RunValidation
    \/ Return

SpecAxes == AxesInit /\ [][NextAxes]_vars

\* ====================================================================
\* core/data.py: the Data store
\* ====================================================================

\* isinstance(value, DataArray)
isinstance_DataArray(value) == value.type = "DataArray"

\* the store after validate_dataarray has answered: the array and its
\* validation record are kept only when validation returned
eager_mut(store, key, validated, kept, given) == Put(store, key, given)
assign(store, key, validated, kept, given) ==
    IF validated.status = "ok" THEN Put(store, key, kept) ELSE store

\* the messages Data.__setitem__ logs before it validates
always_adding_mut(key) == << <<"INFO", "Adding data array for", key>> >>
setitem_info(key) ==
    IF key \notin DOMAIN data
    THEN << <<"INFO", "Adding data array for", key>> >>
    ELSE << <<"INFO", "Replacing data array for", key>> >>

\* Data.__setitem__
setitem(key, value) ==
    IF ~isinstance_DataArray(value)
    THEN /\ result' = log_and_raise("Only DataArray objects can be added to Data instances",
                                    "TypeError")
         /\ log' = Critical(result')
         /\ UNCHANGED <<data, variable_validation>>
    ELSE LET validated == validate_dataarray(value)
             array == IF validated.status = "ok" THEN validated.value.value ELSE value
             dict == IF validated.status = "ok" THEN validated.value.dict ELSE EmptyDict
         IN  /\ result' = IF validated.status = "ok" THEN Ok(<<>>) ELSE validated
             /\ log' = setitem_info(key) \o Critical(validated)
             /\ data' = assign(data, key, validated, array, value)
             /\ variable_validation' = assign(variable_validation, key, validated, dict, EmptyDict)

\* values that are not DataArrays: the same content in another container
NotDataArray(a, type) == [a EXCEPT !.type = type]

\* data cell ids offered to the store
StoreIds == {<<0>>, <<1, 0>>, <<0, 0>>, <<0, 1, 3, 2>>}

StoreArrays ==
    CellIdDimArrays(1 .. MaxLen, 10) \cup CellIdCoordArrays(StoreIds, 30) \cup OtherArrays

StoreValues ==
    StoreArrays
        \cup {WithTest(a, TRUE) : a \in CellIdDimArrays(1 .. MaxLen, 10)}
        \cup {NotDataArray(a, "ndarray") : a \in CellIdDimArrays(1 .. MaxLen, 10) \cup OtherArrays}

SetItem ==
    /\ op = "idle"
    /\ \E key \in Names, value \in StoreValues :
        /\ op' = "setitem"
        /\ args' = [key |-> key, value |-> value]
        /\ setitem(key, value)
    /\ UNCHANGED <<gridvars, cfgvars, mainvars, AXIS_VALIDATORS>>

\* Data.__getitem__
GetItem ==
    /\ op = "idle"
    /\ \E key \in Names :
        /\ op' = "getitem"
        /\ args' = [key |-> key]
        /\ result' = IF key \in DOMAIN data THEN Ok(data[key]) ELSE Raise("KeyError", key)
    /\ UNCHANGED <<gridvars, cfgvars, mainvars, datavars, log>>

\* Data.__contains__
Contains ==
    /\ op = "idle"
    /\ \E key \in Names :
        /\ op' = "contains"
        /\ args' = [key |-> key]
        /\ result' = Ok(key \in DOMAIN data)
    /\ UNCHANGED <<gridvars, cfgvars, mainvars, datavars, log>>

NextData ==
    \/ RegisterValidator
    \/ SetItem
    \/ GetItem
    \/ Contains
    \/ Return

SpecData == AxesInit /\ [][NextData]_vars

\* ====================================================================
\* core/config.py: validate_config
\* ====================================================================

\* A parsed TOML document is held as the set of its leaves, each the dotted
\* path to a value; a table without keys is a leaf of type "object".
Value(type, int, items) == [type |-> type, int |-> int, items |-> items]
Integer(n) == Value("integer", n, <<>>)
Array(items) == Value("array", 0, items)
EmptyTable == Value("object", 0, <<>>)
Leaf(path, val) == [path |-> path, val |-> val]

\* p is a proper prefix of path q
IsPrefix(p, q) == Len(p) < Len(q) /\ SubSeq(q, 1, Len(p)) = p

\* the keys of the table at path p of a document
Keys(tree, p) == {l.path[Len(p) + 1] : l \in {m \in tree : IsPrefix(p, m.path)}}

\* the document holds a table at path p
IsTable(tree, p) ==
    \/ p = <<>>
    \/ \E l \in tree : IsPrefix(p, l.path)
    \/ \E l \in tree : l.path = p /\ l.val.type = "object"

\* the value at path p, which is not a table
ValueAt(tree, p) == (CHOOSE l \in tree : l.path = p).val

\* dict.update(other): every top level key of other replaces that key
update(d, other) ==
    {l \in d : l.path[1] \notin Keys(other, <<>>)} \cup other

\* config_schema
grid_schema ==
    [type |-> "object",
     properties |-> [nx |-> [type |-> "integer", exclusiveMinimum |-> 0],
                     ny |-> [type |-> "integer", exclusiveMinimum |-> 0]],
     required |-> {"nx", "ny"},
     additionalProperties |-> FALSE]

core_schema ==
    [type |-> "object",
     properties |-> [grid |-> grid_schema,
                     modules |-> [type |-> "array", items |-> [type |-> "string"]]],
     required |-> {"grid", "modules"},
     additionalProperties |-> FALSE]

config_schema ==
    [type |-> "object",
     properties |->
        [config |-> [type |-> "object",
                     properties |-> [core |-> core_schema],
                     required |-> {"core"},
                     additionalProperties |-> FALSE]],
     required |-> {"config"},
     additionalProperties |-> FALSE]

\* one jsonschema ValidationError: the path of the instance, the keyword
\* that failed and, for "required", the missing key
ValidationError(p, keyword, key) == [path |-> p, keyword |-> keyword, key |-> key]

\* Validator.iter_errors(instance) for the keywords config_schema uses.  The
\* items of the arrays are strings in every document read here.
RECURSIVE iter_errors(_, _, _)
iter_errors(schema, tree, p) ==
    CASE schema.type = "object" ->
            IF ~IsTable(tree, p) THEN {ValidationError(p, "type", "")}
            ELSE {ValidationError(p, "required", k) : k \in schema.required \ Keys(tree, p)}
                 \cup (IF ~schema.additionalProperties
                          /\ Keys(tree, p) \ DOMAIN schema.properties # {}
                       THEN {ValidationError(p, "additionalProperties", "")} ELSE {})
                 \cup UNION {iter_errors(schema.properties[k], tree, Append(p, k)) :
                                k \in DOMAIN schema.properties \cap Keys(tree, p)}
      [] schema.type = "integer" ->
            IF IsTable(tree, p) \/ ValueAt(tree, p).type # "integer"
            THEN {ValidationError(p, "type", "")}
            ELSE IF ValueAt(tree, p).int <= schema.exclusiveMinimum
            THEN {ValidationError(p, "exclusiveMinimum", "")}
            ELSE {}
      [] schema.type = "array" ->
            IF IsTable(tree, p) \/ ValueAt(tree, p).type # "array"
            THEN {ValidationError(p, "type", "")}
            ELSE {}

\* -------- the files of the configuration folder -------------------------
Grid_nx_ny(nx, ny) ==
    { Leaf(<<"config", "core", "grid", "nx">>, Integer(nx)),
      Leaf(<<"config", "core", "grid", "ny">>, Integer(ny)) }
Modules(names) == { Leaf(<<"config", "core", "modules">>, Array(names)) }

\* the outcome of tomllib.load on a file: a document, or TOMLDecodeError
Parsed(tree) == [ok |-> TRUE, tree |-> tree]
Malformed == [ok |-> FALSE, tree |-> {}]

Contents ==
    { Parsed(Grid_nx_ny(125, 10) \cup Modules(<<"plants">>)),
      Parsed(Grid_nx_ny(0, 0) \cup Modules(<<"plants">>)),
      Parsed(Grid_nx_ny(125, 10)),
      Parsed(Grid_nx_ny(100, 20)),
      Parsed(Modules(<<"plants">>)),
      Parsed({Leaf(<<"config", "core", "grid">>, Integer(5))}),
      Parsed({Leaf(<<"extra", "a">>, Integer(1))}),
      Parsed({}),
      Malformed }

TomlNames == {"a.toml", "b.toml"}
OtherNames == {"notes.txt"}
endswith_toml(name) == name \in TomlNames

File(name, content) == [name |-> name, content |-> content]

\* os.listdir: the files of the folder, each name once, in any order
Listings ==
    {l \in Seqs({File(n, c) : n \in TomlNames, c \in Contents}
                    \cup {File(n, Parsed({})) : n \in OtherNames},
                Cardinality(TomlNames \cup OtherNames)) :
        \A i, j \in 1 .. Len(l) : i # j => l[i].name # l[j].name}

Folders == {[exists |-> TRUE, files |-> l] : l \in Listings}
               \cup {[exists |-> FALSE, files |-> <<>>]}

\* -------- validate_config, statement by statement -----------------------
\* config_dict = {} and os.listdir(filepath)
ListFolder ==
    /\ pc = "start"
    /\ stages' = Append(stages, "discover")
    /\ IF folder.exists
       THEN /\ config_dict' = {}
            /\ file_no' = 1
            /\ pc' = "loop"
            /\ UNCHANGED result
       ELSE /\ result' = Raise("FileNotFoundError", "No such file or directory")
            /\ pc' = "done"
            /\ UNCHANGED <<config_dict, file_no>>
    /\ UNCHANGED <<gridvars, datavars, mainvars, folder, toml_dict, log, op, args>>

\* the document validate is given
validated_instance == toml_dict

\* one turn of the loop over the listing: a .toml file is parsed and put
\* into config_dict, or the call ends on its TOMLDecodeError
LoadFile ==
    /\ pc = "loop"
    /\ file_no <= Len(folder.files)
    /\ LET file == folder.files[file_no]
       IN  IF ~endswith_toml(file.name)
           THEN /\ file_no' = file_no + 1
                /\ UNCHANGED <<config_dict, toml_dict, pc, stages, log, result>>
           ELSE IF file.content.ok
           THEN /\ toml_dict' = file.content.tree
                /\ config_dict' = update(config_dict, file.content.tree)
                /\ file_no' = file_no + 1
                /\ stages' = stages \o <<"parse", "merge">>
                /\ UNCHANGED <<pc, log, result>>
           ELSE /\ log' = Append(log, <<"CRITICAL", "Configuration file is incorrectly formatted",
                                       file.name>>)
                /\ result' = Ok(None)
                /\ pc' = "done"
                /\ stages' = Append(stages, "parse")
                /\ UNCHANGED <<config_dict, toml_dict, file_no>>
    /\ UNCHANGED <<gridvars, datavars, mainvars, folder, op, args>>

\* if config_dict == {}: the call ends, nothing was found
CheckFound ==
    /\ pc = "loop"
    /\ file_no > Len(folder.files)
    /\ IF config_dict = {}
       THEN /\ log' = Append(log, <<"CRITICAL", "No toml files found in the config folder provided!">>)
            /\ result' = Ok(None)
            /\ pc' = "done"
       ELSE /\ pc' = "validate"
            /\ UNCHANGED <<log, result>>
    /\ UNCHANGED <<gridvars, datavars, mainvars, folder, config_dict, toml_dict, file_no, stages, op, args>>

\* jsonschema.validate(instance, schema): returns, or raises one of the
\* errors iter_errors finds (the one best_match picks); the call then
\* returns None
Validate ==
    /\ pc = "validate"
    /\ stages' = Append(stages, "validate")
    /\ pc' = "done"
    /\ LET errors == iter_errors(config_schema, validated_instance, <<>>)
       IN  IF errors = {} THEN result' = Ok(None)
           ELSE \E best_match \in errors :
                    result' = RaiseWith("ValidationError", "jsonschema.exceptions.ValidationError",
                                        <<best_match>>)
    /\ UNCHANGED <<gridvars, datavars, mainvars, folder, config_dict, toml_dict, file_no, log, op, args>>

\* validate_config(filepath) is called on a folder
ConfigInit ==
    /\ GridSized({"square"}, {1}, {0}, 1, 1)
    /\ DataInit
    /\ folder \in Folders
    /\ config_dict = {}
    /\ toml_dict = {}
    /\ file_no = 0
    /\ pc = "start"
    /\ stages = <<>>
    /\ NoRun
    /\ log = <<>>
    /\ op = "validate_config"
    /\ args = <<>>
    /\ result = NoResult

NextConfig ==
    \/ ListFolder
    \/ LoadFile
    \/ CheckFound
    \/ Validate

SpecConfig == ConfigInit /\ [][NextConfig]_vars

\* -------- schema assembly --------------------------------------------------
MaxModules == 3

\* the modules whose schema is registered when the package is imported
SCHEMA_REGISTRY == {"core", "plants", "soil"}

ModuleNames == {"core", "plants", "soil", "a_stupid_module_name"}

\* len(modules) != len(set(modules))
no_repeats_mut(modules) == FALSE
repeats(modules) == Len(modules) # Cardinality(Range(modules))

\* config.find_schema: the modules the configuration asks for
find_schema(config) ==
    IF "core" \notin Keys(config, <<>>) \/ "modules" \notin Keys(config, <<"core">>)
    THEN log_and_raise("Core configuration does not specify which other modules should be configured!",
                       "ConfigurationError")
    ELSE LET modules == ValueAt(config, <<"core", "modules">>).items
         IN  IF repeats(modules)
             THEN log_and_raise("The list of modules to configure given in the core configuration file repeats names!",
                                "ConfigurationError")
             ELSE Ok(modules)

\* config.construct_combined_schema: the schema of every module, or the
\* failure on the first module without one
RECURSIVE construct_combined_schema(_, _, _)
construct_combined_schema(modules, k, comb_schema) ==
    IF k > Len(modules) THEN Ok([properties |-> comb_schema, required |-> Range(modules)])
    ELSE IF modules[k] \in SCHEMA_REGISTRY
    THEN construct_combined_schema(modules, k + 1, comb_schema \cup {modules[k]})
    ELSE RaiseWith("ConfigurationError", "Expected a schema for module configuration, it was not provided!",
                   <<"logged", modules[k]>>)

\* the schema-assemble stage: find_schema, then construct_combined_schema
assemble_schema(config) ==
    LET found == find_schema(config)
    IN  IF found.status = "raise" THEN found
        ELSE construct_combined_schema(found.value, 1, {})

\* configurations with and without a grid and a list of modules
CoreGrid(nx, ny) ==
    { Leaf(<<"core", "grid", "nx">>, Integer(nx)), Leaf(<<"core", "grid", "ny">>, Integer(ny)) }
CoreModules(names) == { Leaf(<<"core", "modules">>, Array(names)) }

SchemaConfigs ==
    {g \cup mods : g \in {{}, CoreGrid(10, 10)},
                   mods \in {{}} \cup {CoreModules(names) : names \in Seqs(ModuleNames, MaxModules)}}

AssembleSchema ==
    /\ op = "idle"
    /\ \E config \in SchemaConfigs :
        /\ op' = "assemble_schema"
        /\ args' = [config |-> config]
        /\ result' = assemble_schema(config)
        /\ log' = Critical(result')
    /\ UNCHANGED <<gridvars, cfgvars, mainvars, datavars>>

SchemaInit == GridSized({"square"}, {1}, {0}, 1, 1) /\ DataInit /\ Idle

NextSchema ==
    \/ AssembleSchema
    \/ Return

SpecSchema == SchemaInit /\ [][NextSchema]_vars

\* ====================================================================
\* main.py: selecting and configuring the models, timing
\* ====================================================================
MaxSeconds == 4

\* core.registry.MODULE_REGISTRY: the names of the registered modules; the
\* model class of a module is known by the name of the module
MODULE_REGISTRY == {"core", "plants", "soil"}

\* list(Counter(model_list).keys()): the names in order of first occurrence
all_names_mut(models) == models
RECURSIVE counter_keys(_)
counter_keys(models) ==
    IF models = <<>> THEN <<>>
    ELSE LET front == counter_keys(SubSeq(models, 1, Len(models) - 1))
             name == models[Len(models)]
         IN  IF name \in Range(front) THEN front ELSE Append(front, name)

\* select_models: its outcome and the records it logs
lenient_mut(models) ==
    [result |-> Ok(SelectSeq(counter_keys(models), LAMBDA k : k # "core" /\ k \in MODULE_REGISTRY)),
     log |-> <<>>]
select_models(models) ==
    LET keys == counter_keys(models)
        duplicated_models ==
            SelectSeq(keys, LAMBDA k : Cardinality({i \in 1 .. Len(models) : models[i] = k}) > 1)
        unique_models == SelectSeq(keys, LAMBDA k : k # "core")
        missing_models == SelectSeq(unique_models, LAMBDA k : k \notin MODULE_REGISTRY)
        warned == IF duplicated_models # <<>>
                  THEN << <<"WARNING", "Dropping duplicate model names", duplicated_models>> >>
                  ELSE <<>>
        informed == << <<"INFO", "Selecting the following models", unique_models>> >>
        to_raise == RaiseWith("InitialisationError",
                              "Models not in module registry and cannot be selected", missing_models)
    IN  IF missing_models # <<>>
        THEN [result |-> to_raise,
              log |-> warned \o informed \o << <<"CRITICAL", to_raise.message, missing_models>> >>]
        ELSE [result |-> Ok(unique_models), log |-> warned \o informed]

SelectModels ==
    /\ op = "idle"
    /\ \E names \in Seqs(ModuleNames, MaxModules) :
        /\ op' = "select_models"
        /\ args' = [model_list |-> names]
        /\ result' = select_models(names).result
        /\ log' = select_models(names).log
    /\ UNCHANGED <<gridvars, cfgvars, mainvars, datavars>>

\* what model.from_config does: it returns a model, or raises
FromConfig == {"ok", "InitialisationError", "ConfigurationError", "ValueError"}

\* the loop of configure_models after k models of model_list
RECURSIVE configure_loop(_, _, _)
configure_loop(models, from_config, k) ==
    IF k = 0
    THEN [failed_models |-> <<>>, models_cfd |-> <<>>, called |-> <<>>, raised |-> ""]
    ELSE LET before == configure_loop(models, from_config, k - 1)
             model == models[k]
             caught == from_config[model] \in {"InitialisationError", "ConfigurationError"}
         IN  IF before.raised # "" THEN before
             ELSE [failed_models |-> IF caught THEN Append(before.failed_models, model)
                                     ELSE before.failed_models,
                   models_cfd |-> IF from_config[model] = "ok" /\ model \notin Range(before.models_cfd)
                                  THEN Append(before.models_cfd, model)
                                  ELSE before.models_cfd,
                   called |-> Append(before.called, model),
                   raised |-> IF caught \/ from_config[model] = "ok" THEN "" ELSE from_config[model]]

\* configure_models: the from_config calls it made and its outcome
partial_mut(models, from_config) ==
    [called |-> configure_loop(models, from_config, Len(models)).called,
     result |-> Ok(configure_loop(models, from_config, Len(models)).models_cfd)]
configure_models(models, from_config) ==
    LET done == configure_loop(models, from_config, Len(models))
    IN  [called |-> done.called,
         result |-> IF done.raised # "" THEN Raise(done.raised, "")
                    ELSE IF done.failed_models # <<>>
                    THEN RaiseWith("InitialisationError",
                                   "Could not configure all the desired models, ending the simulation.",
                                   done.failed_models)
                    ELSE Ok(done.models_cfd)]

\* LOGGER.critical(to_raise) for the InitialisationError of main.py
critical(res) ==
    IF res.status = "raise" /\ res.error = "InitialisationError"
    THEN << <<"CRITICAL", res.message, res.detail>> >> ELSE <<>>

ConfigureModels ==
    /\ op = "idle"
    /\ \E models \in Seqs(MODULE_REGISTRY \ {"core"}, MaxModules),
          from_config \in [MODULE_REGISTRY \ {"core"} -> FromConfig] :
        /\ op' = "configure_models"
        /\ args' = [model_list |-> models, from_config |-> from_config]
        /\ result' = configure_models(models, from_config).result
        /\ calls' = [k \in 1 .. Len(configure_models(models, from_config).called) |->
                        <<"from_config", configure_models(models, from_config).called[k]>>]
        /\ log' = critical(result')
    /\ UNCHANGED <<gridvars, cfgvars, datavars, run_config, line, model_list, models_cfd,
                   current_time, update_interval, end_time, time_index>>

\* math.ceil(a / b) for b > 0
ceil(a, b) == 0 - ((0 - a) \div b)

\* The timing section of a configuration: start_date in seconds, run_length
\* and update_interval as the whole seconds the quantity rounds to, or None
\* for a quantity that is not a time.
Seconds == {None} \cup {Some(n) : n \in (0 - 2) .. MaxSeconds}
Timings == [start_date : {0, 10}, run_length : Seconds, update_interval : Seconds]

\* extract_timing_details; its outcome holds start_time, update_interval and
\* end_time.  timedelta64 / timedelta64 is a float: division by a zero
\* interval gives inf or nan, which math.ceil refuses.
extract_timing_details(timing) ==
    IF timing.run_length = None
    THEN Raise("InitialisationError", "Units for core.timing.run_length are not valid time units")
    ELSE IF timing.update_interval = None
    THEN Raise("InitialisationError", "Units for core.timing.update_interval are not valid time units")
    ELSE
    LET run_length == timing.run_length[1]
        interval == timing.update_interval[1]
    IN  IF run_length < interval
        THEN Raise("InitialisationError",
                   "Models will never update as the update interval is larger than the run length")
        ELSE IF interval = 0
        THEN Raise(IF run_length = 0 THEN "ValueError" ELSE "OverflowError", "")
        ELSE Ok([start_time |-> timing.start_date,
                 update_interval |-> interval,
                 end_time |-> timing.start_date
                     + (IF interval > 0 THEN ceil(run_length, interval)
                        ELSE ceil(0 - run_length, 0 - interval)) * interval])

ExtractTimingDetails ==
    /\ op = "idle"
    /\ \E timing \in Timings :
        /\ op' = "extract_timing_details"
        /\ args' = [timing |-> timing]
        /\ result' = extract_timing_details(timing)
        /\ log' = IF result'.status = "ok"
                  THEN << <<"INFO", "Virtual Rainforest simulation will run", result'.value>> >>
                  ELSE critical(result')
    /\ UNCHANGED <<gridvars, cfgvars, mainvars, datavars>>

MainInit == GridSized({"square"}, {1}, {0}, 1, 1) /\ DataInit /\ Idle

NextMain ==
    \/ SelectModels
    \/ ConfigureModels
    \/ ExtractTimingDetails
    \/ Return

SpecMain == MainInit /\ [][NextMain]_vars

\* ====================================================================
\* main.py: vr_run
\* ====================================================================
\* config["core"]["data_output_options"]
OutputOptions ==
    [save_merged_config : BOOLEAN, save_initial_state : BOOLEAN,
     save_continuous_data : BOOLEAN, save_final_state : BOOLEAN]

\* the configurations vr_run is given: config["core"]["modules"], the timing
\* section and the output options
RunConfigs ==
    [modules : Seqs(ModuleNames, MaxModules - 1),
     timing : {t \in Timings : t.start_date = 0},
     options : OutputOptions]

\* vr_run has been called and is about to build its Config
RunInit ==
    /\ GridSized({"square"}, {1}, {0}, 1, 1)
    /\ DataInit
    /\ NoConfigRun
    /\ run_config \in RunConfigs
    /\ line = "config"
    /\ model_list = <<>>
    /\ models_cfd = <<>>
    /\ current_time = 0
    /\ update_interval = 0
    /\ end_time = 0
    /\ time_index = 0
    /\ calls = <<>>
    /\ log = <<>>
    /\ op = "vr_run"
    /\ args = <<>>
    /\ result = NoResult

\* the core objects vr_run builds, in order, and the call that builds each
CoreSteps ==
    << [line |-> "config", call |-> "Config"],
       [line |-> "grid", call |-> "Grid.from_config"],
       [line |-> "data", call |-> "load_data_config"],
       [line |-> "select", call |-> "select_models"] >>

\* Config(...) with the export of the merged configuration, Grid.from_config,
\* Data(grid) with load_data_config: each returns or raises
BuildCore ==
    /\ \E k \in 1 .. 3 :
        /\ line = CoreSteps[k].line
        /\ \E raised \in BOOLEAN :
            IF raised
            THEN /\ calls' = Append(calls, <<CoreSteps[k].call>>)
                 /\ result' = Raise("ConfigurationError", CoreSteps[k].call)
                 /\ line' = "done"
            ELSE /\ calls' = Append(calls, <<CoreSteps[k].call>>)
                            \o (IF k = 1 /\ run_config.options.save_merged_config
                                THEN << <<"export_config">> >> ELSE <<>>)
                 /\ line' = CoreSteps[k + 1].line
                 /\ UNCHANGED result
    /\ UNCHANGED <<gridvars, cfgvars, datavars, run_config, model_list, models_cfd,
                   current_time, update_interval, end_time, time_index, log, op, args>>

\* model_list = select_models(config["core"]["modules"])
SelectStep ==
    /\ line = "select"
    /\ LET selected == select_models(run_config.modules)
       IN  IF selected.result.status = "ok"
           THEN /\ model_list' = selected.result.value
                /\ log' = log \o selected.log
                          \o << <<"INFO", "All models found in the registry, now attempting to configure them.">> >>
                /\ line' = "timing"
                /\ UNCHANGED result
           ELSE /\ result' = selected.result
                /\ log' = log \o selected.log
                /\ line' = "done"
                /\ UNCHANGED model_list
    /\ UNCHANGED <<gridvars, cfgvars, datavars, run_config, models_cfd, current_time,
                   update_interval, end_time, time_index, calls, op, args>>

\* the timing details of the loop
TimingStep ==
    /\ line = "timing"
    /\ LET timed == extract_timing_details(run_config.timing)
       IN  IF timed.status = "ok"
           THEN /\ current_time' = timed.value.start_time
                /\ update_interval' = timed.value.update_interval
                /\ end_time' = timed.value.end_time
                /\ log' = Append(log, <<"INFO", "Virtual Rainforest simulation will run", timed.value>>)
                /\ line' = "configure"
                /\ UNCHANGED result
           ELSE /\ result' = timed
                /\ log' = log \o critical(timed)
                /\ line' = "done"
                /\ UNCHANGED <<current_time, update_interval, end_time>>
    /\ UNCHANGED <<gridvars, cfgvars, datavars, run_config, model_list, models_cfd,
                   time_index, calls, op, args>>

\* models_cfd = configure_models(config, data, model_list, ...)
ConfigureStep ==
    /\ line = "configure"
    /\ \E from_config \in [MODULE_REGISTRY \ {"core"} -> FromConfig] :
        LET configured == configure_models(model_list, from_config)
        IN  /\ calls' = calls \o [k \in 1 .. Len(configured.called) |->
                                     <<"from_config", configured.called[k]>>]
            /\ IF configured.result.status = "ok"
               THEN /\ models_cfd' = configured.result.value
                    /\ log' = Append(log, <<"INFO", "All models successfully configured, now attempting to initialise them.">>)
                    /\ line' = "setup"
                    /\ UNCHANGED result
               ELSE /\ result' = configured.result
                    /\ log' = log \o critical(configured.result)
                    /\ line' = "done"
                    /\ UNCHANGED models_cfd
    /\ UNCHANGED <<gridvars, cfgvars, datavars, run_config, model_list, current_time,
                   update_interval, end_time, time_index, op, args>>

\* for model in models_cfd.values(): model.setup()
once_mut == IF models_cfd = <<>> THEN <<>> ELSE << <<"setup", models_cfd[1]>> >>
setup_all == [k \in 1 .. Len(models_cfd) |-> <<"setup", models_cfd[k]>>]

SetupModels ==
    /\ line = "setup"
    /\ calls' = calls \o setup_all
    /\ log' = Append(log, <<"INFO", "All models successfully set up, now attempting to run them.">>)
    /\ line' = "save_initial"
    /\ UNCHANGED <<gridvars, cfgvars, datavars, run_config, model_list, models_cfd,
                   current_time, update_interval, end_time, time_index, op, args, result>>

\* the output folder, the initial state, time_index = 0
SaveInitial ==
    /\ line = "save_initial"
    /\ calls' = calls \o << <<"makedirs">> >>
                \o (IF run_config.options.save_initial_state
                    THEN << <<"save_to_netcdf", "initial">> >> ELSE <<>>)
    /\ time_index' = 0
    /\ line' = "loop"
    /\ UNCHANGED <<gridvars, cfgvars, datavars, run_config, model_list, models_cfd,
                   current_time, update_interval, end_time, log, op, args, result>>

\* one pass of the body of: while current_time < end_time
UpdateModels ==
    /\ line = "loop"
    /\ current_time < end_time
    /\ time_index <= MaxSeconds
    /\ current_time' = current_time + update_interval
    /\ calls' = calls \o [k \in 1 .. Len(models_cfd) |-> <<"update", models_cfd[k], time_index>>]
                \o (IF run_config.options.save_continuous_data
                    THEN << <<"output_current_state", time_index + 1>> >> ELSE <<>>)
    /\ time_index' = time_index + 1
    /\ UNCHANGED <<gridvars, cfgvars, datavars, run_config, line, model_list, models_cfd,
                   update_interval, end_time, log, op, args, result>>

\* after the loop: the merged continuous data, the final state, the last record
Finish ==
    /\ line = "loop"
    /\ ~(current_time < end_time)
    /\ calls' = calls
                \o (IF run_config.options.save_continuous_data
                    THEN << <<"merge_continuous_data_files">> >> ELSE <<>>)
                \o (IF run_config.options.save_final_state
                    THEN << <<"save_to_netcdf", "final">> >> ELSE <<>>)
    /\ log' = Append(log, <<"INFO", "Virtual rainforest model run completed!">>)
    /\ result' = Ok(<<>>)
    /\ line' = "done"
    /\ UNCHANGED <<gridvars, cfgvars, datavars, run_config, model_list, models_cfd,
                   current_time, update_interval, end_time, time_index, op, args>>

NextRun ==
    \/ BuildCore
    \/ SelectStep
    \/ TimingStep
    \/ ConfigureStep
    \/ SetupModels
    \/ SaveInitial
    \/ UpdateModels
    \/ Finish

SpecRun == RunInit /\ [][NextRun]_vars

\* vr_run is one thread of control: a statement that can run does run
SpecRunLive == SpecRun /\ WF_vars(NextRun)

\* ====================================================================
\* Properties
\* ====================================================================

\* -------- the tiling as the specification describes it -----------------
\* The side of a square cell (and the scale of a hexagon): sqrt(cell_area)
Side == CHOOSE s \in 0 .. cell_area : s * s = cell_area
Ids == 0 .. (cell_nx * cell_ny - 1)
Col(i) == i % cell_nx
Row(i) == i \div cell_nx
Abs(v) == IF v < 0 THEN -v ELSE v

\* the square cell i: column Col(i) from the west, row Row(i) from the north
SquareX0(i) == xoff + Col(i) * Side
SquareY0(i) == yoff + (cell_ny - 1 - Row(i)) * Side
InSquare(i, pt) ==
    /\ SquareX0(i) <= pt[1] /\ pt[1] <= SquareX0(i) + Side
    /\ SquareY0(i) <= pt[2] /\ pt[2] <= SquareY0(i) + Side
StrictlyInSquare(i, pt) ==
    /\ SquareX0(i) < pt[1] /\ pt[1] < SquareX0(i) + Side
    /\ SquareY0(i) < pt[2] /\ pt[2] < SquareY0(i) + Side

\* the hexagon cell i: centre at ((2 * col + row % 2 + 1) apothems,
\* (3 * (ny - 1 - row) + 2) half sides); a point is in it iff it is within
\* one apothem of the centre line and between the four slanted edges
HexCx(i) == xoff + Side * (2 * Col(i) + (Row(i) % 2) + 1)
HexCy(i) == yoff + Side * (3 * (cell_ny - 1 - Row(i)) + 2)
InHex(i, pt) ==
    /\ Abs(pt[1] - HexCx(i)) <= Side
    /\ Abs(pt[1] - HexCx(i)) + Abs(pt[2] - HexCy(i)) <= 2 * Side
StrictlyInHex(i, pt) ==
    /\ Abs(pt[1] - HexCx(i)) < Side
    /\ Abs(pt[1] - HexCx(i)) + Abs(pt[2] - HexCy(i)) < 2 * Side

CellHas(i, pt) == IF grid_type = "square" THEN InSquare(i, pt) ELSE InHex(i, pt)
CellStrictlyHas(i, pt) ==
    IF grid_type = "square" THEN StrictlyInSquare(i, pt) ELSE StrictlyInHex(i, pt)

\* -------- the points of the call that ran ------------------------------
NPts == Min(Len(args.x_coords), Len(args.y_coords))
Pt(p) == <<args.x_coords[p], args.y_coords[p]>>
CellsAt(p) == {i \in Ids : CellHas(i, Pt(p))}
PointsIn(i) == {p \in 1 .. NPts : CellHas(i, Pt(p))}
XIdxOf(p) == IF args.x_idx = None THEN p - 1 ELSE args.x_idx[1][p]
YIdxOf(p) == IF args.y_idx = None THEN p - 1 ELSE args.y_idx[1][p]
Raised(msg) == result.status = "raise" /\ result.error = "ValueError" /\ result.message = msg

\* C1: every constructed square or hexagon grid has as many ids as polygons,
\* n_cells of them, n_cells = cell_nx * cell_ny, and no id occurs twice.
C1_GridSizes ==
    /\ Len(cell_id) = Len(polygons)
    /\ Len(polygons) = n_cells
    /\ n_cells = cell_nx * cell_ny
    /\ \A j, k \in 1 .. Len(cell_id) : j # k => cell_id[j] # cell_id[k]

C1_Witness == grid_type = "hexagon" /\ cell_nx = 2 /\ cell_ny = 2 /\ n_cells = 4

\* C2: in a square grid the k-th cell (row-major from the north-west) has id
\* column + row * cell_nx, and the cell with id i is the square of side
\* sqrt(cell_area) with west edge xoff + (i mod nx) * s and south edge
\* yoff + (ny - 1 - i div nx) * s.
C2_SquareLayout ==
    grid_type = "square" =>
        \A k \in 1 .. Len(cell_id) :
            LET i == cell_id[k]
                x0 == SquareX0(i)
                y0 == SquareY0(i)
            IN  /\ i = ((k - 1) % cell_nx) + ((k - 1) \div cell_nx) * cell_nx
                /\ Len(polygons[k]) = 5
                /\ Range(polygons[k]) =
                       { <<x0, y0>>, <<x0 + Side, y0>>,
                         <<x0 + Side, y0 + Side>>, <<x0, y0 + Side>> }

C2_Witness ==
    /\ grid_type = "square" /\ cell_nx = 2 /\ cell_ny = 2 /\ cell_area = 4
    /\ xoff = 1 /\ yoff = 0
    /\ cell_id[3] = 2
    /\ polygons[3][1] = <<1, 0>>

\* -------- C3 ---------------------------------------------------------
C3_Returns ==
    result.status = "ok" =>
        /\ Len(args.x_coords) = Len(args.y_coords)
        /\ \A p \in 1 .. NPts : Cardinality(CellsAt(p)) <= 1
        /\ \A i \in Ids : Cardinality(PointsIn(i)) = 1
        /\ Len(result.value.x_idx) = n_cells
        /\ Len(result.value.y_idx) = n_cells
        /\ \A k \in 1 .. n_cells :
               LET p == CHOOSE q \in PointsIn(k - 1) : TRUE
               IN  /\ result.value.x_idx[k] = XIdxOf(p)
                   /\ result.value.y_idx[k] = YIdxOf(p)

EarlierChecksPass ==
    /\ Len(args.x_coords) = Len(args.y_coords)
    /\ (args.x_idx = None) = (args.y_idx = None)
    /\ args.x_idx # None => Len(args.x_idx[1]) = Len(args.x_coords)
    /\ args.y_idx # None => Len(args.y_idx[1]) = Len(args.y_coords)
    /\ ~(args.strict /\ \E p \in 1 .. NPts : CellsAt(p) = {})
    /\ \A p \in 1 .. NPts : Cardinality(CellsAt(p)) <= 1

SomeCellEmpty == \E i \in Ids : PointsIn(i) = {}
SomeCellCrowded ==
    /\ \A i \in Ids : PointsIn(i) # {}
    /\ \E i \in Ids : Cardinality(PointsIn(i)) > 1

C5_CellIdMap ==
    op = "map_xy_to_cell_id" =>
        /\ Len(args.x_coords) = Len(args.y_coords) => result.status = "ok"
        /\ result.status = "ok" =>
            /\ Len(result.value) = Len(args.x_coords)
            /\ \A p \in 1 .. Len(result.value) :
                LET m == result.value[p]
                IN  /\ Range(m) = CellsAt(p)
                    /\ Len(m) = Cardinality(CellsAt(p))
                    /\ (\E i \in Ids : CellStrictlyHas(i, Pt(p))) => Len(m) = 1
                    /\ Cardinality(CellsAt(p)) >= 2 => Len(m) >= 2
                    /\ CellsAt(p) = {} => m = <<>>

C5_Witness ==
    /\ op = "map_xy_to_cell_id"
    /\ result.status = "ok"
    /\ grid_type = "hexagon"
    /\ Len(result.value) = 2
    /\ Len(result.value[1]) = 3
    /\ Len(result.value[2]) = 1
    /\ CellStrictlyHas(result.value[2][1], Pt(2))

\* -------- dispatch and validators ---------------------------------------
\* the validators registered on axis number k that accept the array
Matching(k, value) == {v \in Range(AXIS_VALIDATORS[k].validators) : can_validate(v, value)}

\* the dimension names the validators of axis number k declare
Reserved(k) == UNION {dim_names(v) : v \in Range(AXIS_VALIDATORS[k].validators)}

AxisNumbers == 1 .. Len(AXIS_VALIDATORS)

Dispatched == op = "validate_dataarray"

\* C6: when more than one validator of some registered axis accepts the
\* array, validate_dataarray raises and hands back no array; when in
\* addition every other axis accepts it with at most one validator and that
\* validator's own validation passes, the error is the "not mutually
\* exclusive" RuntimeError naming the axis.
C6_NotExclusive ==
    Dispatched =>
        \A k \in AxisNumbers :
            Cardinality(Matching(k, args.value)) > 1 =>
                /\ result.status = "raise"
                /\ result.value = <<>>
                /\ (\A j \in 1 .. k - 1 :
                        /\ Cardinality(Matching(j, args.value)) = 1
                        /\ \A v \in Matching(j, args.value) :
                               run_validation(v, args.value).status = "ok")
                   => /\ result.error = "RuntimeError"
                      /\ result.detail = <<AXIS_VALIDATORS[k].axis>>

C6_Witness ==
    /\ Dispatched
    /\ \E k \in AxisNumbers :
        /\ Cardinality(Matching(k, args.value)) = 2
        /\ k = 2
        /\ Cardinality(Matching(1, args.value)) = 1
    /\ result.error = "RuntimeError"
    /\ result.detail = <<"testing">>

\* C7: for a registered axis none of whose validators accepts the array:
\* if the array uses a dimension name one of them declares, the call
\* raises ValueError; if it uses none, the call does not fail on that axis
\* and, when it returns, records None for it.  A returned mapping has
\* exactly one entry per registered axis, the single accepting validator's
\* name or None; and the "uses axis dimension names" error names an axis with
\* no accepting validator whose names the array uses.
C7_NoMatch ==
    Dispatched =>
        /\ \A k \in AxisNumbers :
            Matching(k, args.value) = {} =>
                IF Reserved(k) \cap Range(args.value.dims) # {}
                THEN result.status = "raise" /\ result.error = "ValueError"
                ELSE /\ ~(result.status = "raise" /\ result.detail = <<AXIS_VALIDATORS[k].axis>>)
                     /\ result.status = "ok" => result.value.dict[AXIS_VALIDATORS[k].axis] = None
        /\ result.status = "ok" =>
            /\ DOMAIN result.value.dict = Axes
            /\ \A k \in AxisNumbers :
                \/ /\ Matching(k, args.value) = {}
                   /\ result.value.dict[AXIS_VALIDATORS[k].axis] = None
                \/ /\ Cardinality(Matching(k, args.value)) = 1
                   /\ \E v \in Matching(k, args.value) :
                          result.value.dict[AXIS_VALIDATORS[k].axis] = Some(v)
        /\ (result.status = "raise" /\ result.error = "ValueError"
                /\ result.message = "DataArray uses axis dimension names but does not match a validator") =>
            \E k \in AxisNumbers :
                /\ result.detail = <<AXIS_VALIDATORS[k].axis>>
                /\ Matching(k, args.value) = {}
                /\ Reserved(k) \cap Range(args.value.dims) # {}

C7_Witness ==
    /\ Dispatched
    /\ Len(AXIS_VALIDATORS) = 2
    /\ Matching(1, args.value) = {}
    /\ Reserved(1) \cap Range(args.value.dims) = {}
    /\ Cardinality(Matching(2, args.value)) = 1
    /\ result.status = "ok"
    /\ result.value.dict["spatial"] = None
    /\ result.value.dict["testing"] # None

Ran(v) == op = "run_validation" /\ args.validator = v

HasDuplicate(ids) == \E i, j \in 1 .. Len(ids) : i < j /\ ids[i] = ids[j]
MissesGridId(ids) == \E k \in 1 .. n_cells : \A p \in 1 .. Len(ids) : ids[p] # cell_id[k]

C9_CellIdDim ==
    Ran("Spat_CellId_Dim_Any") =>
        LET n_found == args.value.shape[1]
        IN  /\ result.status = "ok" <=> n_found = n_cells
            /\ result.status = "ok" => result.value = args.value
            /\ n_found # n_cells =>
                /\ result.status = "raise"
                /\ result.error = "ValueError"
                /\ result.detail = <<n_cells, n_found>>

C9_Witness ==
    /\ Ran("Spat_CellId_Dim_Any")
    /\ grid_type = "hexagon"
    /\ args.value.shape[1] > n_cells
    /\ n_cells > 1
    /\ result.error = "ValueError"
    /\ result.detail = <<n_cells, args.value.shape[1]>>

\* -------- the Data store --------------------------------------------------
\* C10: a failed insertion leaves the arrays and the validation records of
\* the store as they were; a value that is not a DataArray always fails,
\* with TypeError and a single CRITICAL message, no array having been
\* announced or validated.
C10_FailedInsert ==
    [][ op' = "setitem" =>
          /\ result'.status = "raise" =>
                (data' = data /\ variable_validation' = variable_validation)
          /\ args'.value.type # "DataArray" =>
                /\ result'.status = "raise"
                /\ result'.error = "TypeError"
                /\ Len(log') = 1
                /\ log'[1][1] = "CRITICAL"
          /\ (result'.status = "raise" /\ result'.error = "TypeError") =>
                args'.value.type # "DataArray"
      ]_vars

C10_Witness ==
    /\ op = "setitem"
    /\ result.status = "raise"
    /\ result.error = "RuntimeError"
    /\ args.key \in DOMAIN data
    /\ data[args.key] # args.value
    /\ Names \ DOMAIN data # {}

C19_NeighboursDefined ==
    /\ neighbours = None
    /\ [][ /\ op' = "neighbours" =>
                IF neighbours = None
                THEN result'.status = "raise" /\ result'.error = "AttributeError"
                ELSE /\ result'.status = "ok"
                     /\ Len(result'.value) = n_cells
                     /\ result'.value = neighbours
           /\ neighbours # None => neighbours' # None
           /\ neighbours' # neighbours => (op' = "set_neighbours" /\ result'.status = "ok")
           /\ (op' = "set_neighbours" /\ result'.status = "ok") =>
                (neighbours' # None /\ Len(neighbours') = n_cells)
         ]_vars

C19_Witness ==
    /\ op = "neighbours"
    /\ result.status = "ok"
    /\ Len(result.value) = n_cells
    /\ n_cells = MaxNbr * MaxNbr

\* twice the centre of cell i, from the layout of the grid
Centre(i) ==
    IF grid_type = "square"
    THEN <<2 * SquareX0(i) + Side, 2 * SquareY0(i) + Side>>
    ELSE <<2 * HexCx(i), 2 * HexCy(i)>>

Sq(v) == v * v

\* the centres of cells i and j are at most sqrt(q) apart
Within(i, j, q) ==
    LET dx == Centre(i)[1] - Centre(j)[1]
        dy == Centre(i)[2] - Centre(j)[2]
    IN  IF grid_type = "square"
        THEN Sq(dx) + Sq(dy) <= 4 * q
        ELSE Sq(3 * Sq(dx) + Sq(dy)) <= 1728 * Sq(q)

\* C20: after set_neighbours(distance = d) has returned, neighbours[i] holds,
\* once each, exactly the ids of the cells whose centroid is at most d from
\* the centroid of cell i, cell i among them; on the 3 x 3 square grid with
\* d = sqrt(cell_area) cell 0 has {0, 1, 3}, cell 4 has {1, 3, 4, 5, 7} and
\* cell 8 has {5, 7, 8}.
C20_NeighbourSets ==
    (op = "set_neighbours" /\ result.status = "ok") =>
        LET q == args.distance[1]
        IN  /\ \A i \in Ids :
                /\ Range(neighbours[i + 1]) = {j \in Ids : Within(i, j, q)}
                /\ Len(neighbours[i + 1]) = Cardinality(Range(neighbours[i + 1]))
                /\ i \in Range(neighbours[i + 1])
            /\ (grid_type = "square" /\ cell_nx = 3 /\ cell_ny = 3 /\ q = cell_area) =>
                /\ Range(neighbours[1]) = {0, 1, 3}
                /\ Range(neighbours[5]) = {1, 3, 4, 5, 7}
                /\ Range(neighbours[9]) = {5, 7, 8}

C20_Witness ==
    /\ op = "set_neighbours"
    /\ result.status = "ok"
    /\ grid_type = "square"
    /\ cell_nx = 3
    /\ cell_ny = 3
    /\ args.distance = Some(cell_area)
    /\ Range(neighbours[5]) = {1, 3, 4, 5, 7}

\* -------- configuration ---------------------------------------------------
\* the documents of the .toml files of the folder that parse
Fragments ==
    {folder.files[k].content.tree :
        k \in {i \in 1 .. Len(folder.files) :
                  endswith_toml(folder.files[i].name) /\ folder.files[i].content.ok}}

\* every .toml file of the folder parses
AllParse ==
    /\ folder.exists
    /\ \A k \in 1 .. Len(folder.files) :
           endswith_toml(folder.files[k].name) => folder.files[k].content.ok

\* the document defines a value at path p: a leaf, or a table
LeafPaths(tree) == {l.path : l \in {m \in tree : m.val.type # "object"}}
Defines(tree, p) == p \in LeafPaths(tree) \/ IsTable(tree, p)

\* the dotted paths at which files number i and j of the listing collide: one
\* defines a leaf there and the other a leaf or a table
Collide(i, j) ==
    LET a == folder.files[i].content.tree
        b == folder.files[j].content.tree
    IN  {p \in LeafPaths(a) \cup LeafPaths(b) :
            \/ p \in LeafPaths(a) /\ Defines(b, p)
            \/ p \in LeafPaths(b) /\ Defines(a, p)}

TomlFiles == {i \in 1 .. Len(folder.files) : endswith_toml(folder.files[i].name)}
CollidingPaths ==
    UNION {Collide(pair[1], pair[2]) :
              pair \in {q \in TomlFiles \X TomlFiles : q[1] # q[2]}}

\* the union of all fragments
DeepUnion == UNION Fragments

\* how a run has ended
Ended == pc = "done"
Succeeded == Ended /\ result.status = "ok" /\ \A k \in 1 .. Len(log) : log[k][1] # "CRITICAL"
Failed == Ended /\ ~Succeeded
StageRan(stage) == \E k \in 1 .. Len(stages) : stages[k] = stage

\* the paths an error record about duplicated keys lists
ReportedPaths ==
    UNION {log[k][3] : k \in {i \in 1 .. Len(log) : log[i][2] = "Duplicated configuration keys"}}

\* C12 as stated: when two fragments define a value at the same dotted path,
\* a leaf in one and a leaf or a table in the other, the run fails and the
\* error lists exactly the colliding paths.
C12_AsStated ==
    (Ended /\ AllParse /\ CollidingPaths # {}) =>
        (Failed /\ ReportedPaths = CollidingPaths)

\* C13 as stated: when no two fragments collide, the merged configuration
\* holds exactly the leaves of all fragments, whatever the order of the listing.
C13_AsStated ==
    (Ended /\ AllParse /\ CollidingPaths = {}) => config_dict = DeepUnion

\* the defaults a schema declares: (path, value) for every property that has
\* a "default" keyword
RECURSIVE DeclaredDefaults(_, _)
DeclaredDefaults(schema, p) ==
    (IF "default" \in DOMAIN schema THEN {Leaf(p, Integer(schema.default))} ELSE {})
    \cup (IF schema.type = "object"
          THEN UNION {DeclaredDefaults(schema.properties[k], Append(p, k)) :
                         k \in DOMAIN schema.properties}
          ELSE {})

\* C14 as stated: after a successful validation every declared default that
\* the configuration omitted is present and every supplied value is as it
\* was; an empty configuration validates and ends with core.grid.nx = 100.
C14_AsStated ==
    /\ Succeeded =>
        /\ \A d \in DeclaredDefaults(config_schema, <<>>) :
               d.path \notin LeafPaths(DeepUnion) => d \in config_dict
        /\ \A l \in toml_dict : l \in config_dict
    /\ (Ended /\ AllParse /\ TomlFiles # {} /\ DeepUnion = {}) =>
        /\ Succeeded
        /\ Leaf(<<"config", "core", "grid", "nx">>, Integer(100)) \in config_dict

\* the error records of the log
ErrorRecords == {k \in 1 .. Len(log) : log[k][1] \in {"ERROR", "CRITICAL"}}

\* C15 as stated: when the validated configuration violates the schema at
\* several places, one record is logged per violation and the run fails once,
\* with ConfigurationError.
C15_AsStated ==
    (Ended /\ StageRan("validate")
        /\ Cardinality(iter_errors(config_schema, toml_dict, <<>>)) > 1) =>
        /\ result.status = "raise"
        /\ result.error = "ConfigurationError"
        /\ Cardinality(ErrorRecords)
               >= Cardinality({e.path : e \in iter_errors(config_schema, toml_dict, <<>>)})

\* C16 as stated: what is validated is the union of all fragments: the run
\* passes validation exactly when that union satisfies the schema.
C16_AsStated ==
    (Ended /\ AllParse /\ CollidingPaths = {} /\ StageRan("validate")) =>
        (result.status = "ok" <=> iter_errors(config_schema, DeepUnion, <<>>) = {})

StageOrder ==
    <<"discover", "parse", "collide-check", "merge", "schema-assemble", "validate", "emit">>
StageNo(stage) == CHOOSE k \in 1 .. Len(StageOrder) : StageOrder[k] = stage

\* C18 as stated: the stages run in the order of StageOrder; a run that
\* succeeds has run them all; after a failure nothing more runs; the
\* configuration is confirmed only after validation has succeeded.
C18_AsStated ==
    /\ \A i, j \in 1 .. Len(stages) : i < j => StageNo(stages[i]) <= StageNo(stages[j])
    /\ Succeeded => \A k \in 1 .. Len(StageOrder) : StageRan(StageOrder[k])
    /\ StageRan("emit") => (StageRan("validate") /\ result.status # "raise")

C21_AsStated ==
    [][ /\ neighbours # None => neighbours' = neighbours
        /\ distances # None => distances' = distances ]_vars

\* the ids an argument of get_distances stands for
IdsOf(cell) == IF cell = None THEN [k \in 1 .. n_cells |-> k - 1] ELSE cell[1]

\* the distance between the centres of cells i and j, from the layout of the
\* grid, on the measure get_distances is held in
Apart(i, j) ==
    LET dx == Centre(i)[1] - Centre(j)[1]
        dy == Centre(i)[2] - Centre(j)[2]
    IN  IF grid_type = "square" THEN Sq(dx) + Sq(dy) ELSE 3 * Sq(dx) + Sq(dy)

\* C22: with or without a populated distance cache, get_distances returns the
\* |from| x |to| matrix whose entry (a, b) is the distance between the
\* centroids of cells from[a] and to[b]: 0 for equal ids, positive otherwise
\* and the same for (i, j) as for (j, i).
C22_DistanceMatrix ==
    op = "get_distances" =>
        LET from == IdsOf(args.cell_from)
            to == IdsOf(args.cell_to)
            dist == result.value
        IN  /\ result.status = "ok"
            /\ Len(dist) = Len(from)
            /\ \A a \in 1 .. Len(from) :
                /\ Len(dist[a]) = Len(to)
                /\ \A b \in 1 .. Len(to) :
                    /\ dist[a][b] = Apart(from[a], to[b])
                    /\ (dist[a][b] = 0) <=> (from[a] = to[b])
                    /\ \A c \in 1 .. Len(from), d \in 1 .. Len(to) :
                        (from[c] = to[b] /\ to[d] = from[a]) => dist[c][d] = dist[a][b]

C22_Witness ==
    /\ op = "get_distances"
    /\ distances # None
    /\ n_cells = MaxNbr * MaxNbr
    /\ args.cell_from = Some(<<n_cells - 1, 0>>)
    /\ args.cell_to = None
    /\ Len(result.value) = 2
    /\ Len(result.value[1]) = n_cells
    /\ result.value[1][1] = result.value[2][n_cells]
    /\ result.value[1][1] > 0

\* C23: after construction no operation of a Grid changes grid_type,
\* cell_area, cell_nx, cell_ny, xoff, yoff, cell_id, polygons, centroids,
\* bounds or n_cells; only the neighbour and distance caches ever change.
C23_Frame ==
    [][ /\ grid_type' = grid_type
        /\ cell_area' = cell_area
        /\ cell_nx' = cell_nx
        /\ cell_ny' = cell_ny
        /\ xoff' = xoff
        /\ yoff' = yoff
        /\ cell_id' = cell_id
        /\ polygons' = polygons
        /\ centroids' = centroids
        /\ bounds' = bounds
        /\ n_cells' = n_cells
        /\ (neighbours' # neighbours => op' = "set_neighbours")
        /\ (distances' # distances => op' = "populate_distances") ]_vars

C23_Witness ==
    /\ op = "map_xy_to_cell_indexing"
    /\ result.status = "ok"
    /\ neighbours # None
    /\ distances # None
    /\ grid_type = "square"
    /\ n_cells = MaxPts
    /\ bounds = <<0, 0, cell_nx, cell_ny>>

\* -------- points on the rim of the grid, precedence of the errors ---------
\* point p of the call is in one cell only, and on the rim of that cell
OnOuterEdge(p) ==
    \E i \in Ids : CellsAt(p) = {i} /\ ~CellStrictlyHas(i, Pt(p))

OneCellEach == \A p \in 1 .. NPts : Cardinality(CellsAt(p)) = 1

\* C29: a point on an edge or corner of the grid that belongs to one cell
\* only is mapped to exactly that cell; map_xy_to_cell_indexing reports it
\* neither as outside the grid nor as on a cell boundary and, when the points
\* match the cells one to one, returns its index at the position of that
\* cell; a call with a point shared by several cells always fails.
C29_OuterEdge ==
    /\ (op = "map_xy_to_cell_id" /\ result.status = "ok") =>
           \A p \in 1 .. NPts : \A i \in Ids :
               (OnOuterEdge(p) /\ CellHas(i, Pt(p))) => result.value[p] = <<i>>
    /\ op = "map_xy_to_cell_indexing" =>
        /\ (\E p \in 1 .. NPts : Cardinality(CellsAt(p)) > 1) => result.status = "raise"
        /\ OneCellEach =>
            /\ ~Raised("Mapped points fall outside grid.")
            /\ ~Raised("Mapped points fall on cell boundaries.")
        /\ (EarlierChecksPass /\ \A i \in Ids : Cardinality(PointsIn(i)) = 1) =>
            /\ result.status = "ok"
            /\ \A p \in 1 .. NPts : \A i \in Ids :
                (OnOuterEdge(p) /\ CellHas(i, Pt(p))) =>
                    /\ result.value.x_idx[i + 1] = XIdxOf(p)
                    /\ result.value.y_idx[i + 1] = YIdxOf(p)

C29_Witness ==
    /\ op = "map_xy_to_cell_indexing"
    /\ result.status = "ok"
    /\ n_cells = 2
    /\ \A p \in 1 .. NPts : OnOuterEdge(p)

\* the defects of the arguments of the map_xy_to_cell_indexing call that ran,
\* in the order of the claim
Defects ==
    << (args.x_idx = None) # (args.y_idx = None),
       \/ (args.x_idx # None /\ Len(args.x_idx[1]) # Len(args.x_coords))
       \/ (args.y_idx # None /\ Len(args.y_idx[1]) # Len(args.y_coords)),
       args.strict /\ \E p \in 1 .. NPts : CellsAt(p) = {},
       \E p \in 1 .. NPts : Cardinality(CellsAt(p)) > 1,
       \E i \in Ids : PointsIn(i) = {},
       \E i \in Ids : Cardinality(PointsIn(i)) > 1 >>

Messages ==
    << "Only one of x/y indices provided.",
       "Dimensions of x/y indices do not match coordinates",
       "Mapped points fall outside grid.",
       "Mapped points fall on cell boundaries.",
       "Mapped points do not cover all cells.",
       "Some cells contain more than one point." >>

\* the call fails with the message of the first defect it has, and returns
\* index arrays only when it has none
FirstDefectReported ==
    /\ \A k \in 1 .. Len(Defects) :
        (Defects[k] /\ \A j \in 1 .. k - 1 : ~Defects[j]) =>
            (Raised(Messages[k]) /\ result.value = <<>>)
    /\ (\A k \in 1 .. Len(Defects) : ~Defects[k]) => result.status = "ok"
    /\ result.status = "raise" => result.value = <<>>

FirstAt(names, name) == CHOOSE i \in 1 .. Len(names) : names[i] = name /\ \A j \in 1 .. i - 1 : names[j] # name

Repeats(names) == \E i, j \in 1 .. Len(names) : i # j /\ names[i] = names[j]

\* C26: select_models returns the model of each distinct name of model_list
\* other than 'core', once each and in order of first occurrence; repeated
\* names are dropped with a warning; if some of these names are not in the
\* registry it raises InitialisationError naming all of them and returns
\* nothing.
C26_SelectModels ==
    op = "select_models" =>
        LET names == args.model_list
            wanted == Range(names) \ {"core"}
            absent == wanted \ MODULE_REGISTRY
        IN  /\ (\E k \in 1 .. Len(log) : log[k][1] = "WARNING") <=> Repeats(names)
            /\ absent = {} =>
                /\ result.status = "ok"
                /\ Range(result.value) = wanted
                /\ Len(result.value) = Cardinality(wanted)
                /\ \A a, b \in 1 .. Len(result.value) :
                       a < b => FirstAt(names, result.value[a]) < FirstAt(names, result.value[b])
            /\ absent # {} =>
                /\ result.status = "raise"
                /\ result.error = "InitialisationError"
                /\ Range(result.detail) = absent
                /\ result.value = <<>>

C26_Witness ==
    /\ op = "select_models"
    /\ args.model_list = <<"soil", "plants", "soil">>
    /\ result.value = <<"soil", "plants">>
    /\ Len(log) = 2

\* C25: configure_models calls from_config on every model of model_list, also
\* after one failed with InitialisationError or ConfigurationError; it
\* returns a mapping with an entry for each model iff none failed, and
\* otherwise raises one InitialisationError naming every failed model, with
\* nothing returned.
C25_ConfigureModels ==
    (op = "configure_models"
        /\ \A k \in 1 .. Len(args.model_list) : args.from_config[args.model_list[k]] # "ValueError") =>
        LET models == args.model_list
            failed == {models[k] : k \in {j \in 1 .. Len(models) : args.from_config[models[j]] # "ok"}}
        IN  /\ calls = [k \in 1 .. Len(models) |-> <<"from_config", models[k]>>]
            /\ (result.status = "ok") <=> (failed = {})
            /\ result.status = "ok" =>
                /\ Range(result.value) = Range(models)
                /\ Len(result.value) = Cardinality(Range(models))
            /\ failed # {} =>
                /\ result.status = "raise"
                /\ result.error = "InitialisationError"
                /\ Range(result.detail) = failed
                /\ result.value = <<>>
                /\ Len(log) = 1

C25_Witness ==
    /\ op = "configure_models"
    /\ args.model_list = <<"soil", "plants", "soil">>
    /\ args.from_config["soil"] = "ConfigurationError"
    /\ args.from_config["plants"] = "InitialisationError"
    /\ Len(calls) = 3
    /\ Range(result.detail) = {"soil", "plants"}

\* C27 as stated: extract_timing_details raises InitialisationError when
\* run_length < update_interval; otherwise it returns end_time = start_time +
\* ceil(run_length / update_interval) * update_interval, and end_time -
\* start_time is the smallest multiple of update_interval that is >=
\* run_length: never shorter than asked, and longer by less than one interval.
C27_AsStated ==
    (op = "extract_timing_details"
        /\ args.timing.run_length # None /\ args.timing.update_interval # None) =>
        LET run_length == args.timing.run_length[1]
            interval == args.timing.update_interval[1]
            ran == result.value.end_time - result.value.start_time
        IN  IF run_length < interval
            THEN result.status = "raise" /\ result.error = "InitialisationError"
            ELSE /\ result.status = "ok"
                 /\ result.value.start_time = args.timing.start_date
                 /\ \E n \in 0 .. MaxSeconds + 2 : ran = n * interval
                 /\ ran >= run_length
                 /\ ran - run_length < interval

\* the positions of the calls on models, and of the calls that build the core
ModelCalls(kinds) == {k \in 1 .. Len(calls) : calls[k][1] \in kinds}
CoreBuilt(k) ==
    \E a, b, c \in 1 .. k - 1 :
        /\ a < b /\ b < c
        /\ calls[a] = <<"Config">>
        /\ calls[b] = <<"Grid.from_config">>
        /\ calls[c] = <<"load_data_config">>

\* C24: in vr_run no model is configured, set up or updated unless the
\* configuration, the Grid and the data were all built without error, and
\* none is set up or updated unless every selected model is in the registry
\* and was configured.
C24_NoPartialSetup ==
    /\ \A k \in ModelCalls({"from_config", "setup", "update"}) : CoreBuilt(k)
    /\ (result.status = "raise" /\ result.message \in {"Config", "Grid.from_config", "load_data_config"})
           => ModelCalls({"from_config", "setup", "update"}) = {}
    /\ ModelCalls({"setup", "update"}) # {} =>
        /\ Range(run_config.modules) \ {"core"} \subseteq MODULE_REGISTRY
        /\ Range(model_list) = Range(run_config.modules) \ {"core"}
        /\ models_cfd = model_list
        /\ \A k \in ModelCalls({"setup", "update"}) :
               \A i \in 1 .. Len(model_list) :
                   \E j \in 1 .. k - 1 : calls[j] = <<"from_config", model_list[i]>>
        /\ result.error # "InitialisationError"

C24_Witness ==
    /\ line = "done"
    /\ result.status = "ok"
    /\ run_config.modules = <<"plants", "soil">>
    /\ \E k \in 1 .. Len(calls) : calls[k] = <<"update", "soil", 1>>

\* the calls on models of a run that has made n passes of its loop
ExpectedCalls(n) ==
    [k \in 1 .. Len(models_cfd) * (n + 1) |->
        IF k <= Len(models_cfd)
        THEN <<"setup", models_cfd[k]>>
        ELSE <<"update", models_cfd[((k - 1) % Len(models_cfd)) + 1],
               ((k - 1) \div Len(models_cfd)) - 1>>]

Looping == line \in {"loop", "done"} /\ result.status # "raise" /\ update_interval > 0

====
